---- MODULE Spec2Model ----
(***************************************************************************)
(* Model of the document-to-flashcard generation pipeline of               *)
(* flashcards-ai: server/lib/openai.ts (chunkText, buildSystemPrompt,      *)
(* generateFlashcardsFromText, generateSummaryFromText,                    *)
(* summarizeSingleChunk), server/lib/document-processor.ts                 *)
(* (processDocumentAndGenerateFlashcards) and the upload route of          *)
(* server/routes.ts.                                                       *)
(*                                                                         *)
(* Strings are sequences of one-character strings.  Indices into strings   *)
(* are 0-based as in the source; Slice and LastIndexOf translate to the    *)
(* 1-based sequences of TLA+.  Error messages are sequences of words and   *)
(* a prompt is the sequence of its clauses.                                *)
(***************************************************************************)
EXTENDS Integers, Sequences, FiniteSets, TLC

\* ------------------------------------------------------------------------
\* Bounds of the chunker specification
\* ------------------------------------------------------------------------
MaxTextLen == 6

MaxChunkSizeBound == 3

\* characters of the bounded texts: a letter, newline, period, space
Alphabet == {"a", "\n", ".", " "}

\* ------------------------------------------------------------------------
\* String helpers (JavaScript String.prototype semantics)
\* ------------------------------------------------------------------------
Min(a, b) == IF a <= b THEN a ELSE b

SetMax(S) == CHOOSE x \in S : \A y \in S : y <= x

\* variant of Slice that leaves out the last character of the slice
SliceDropLast(t, from, to) == SubSeq(t, from + 1, Min(to, Len(t)) - 1)

\* text.slice(from, to) with 0 <= from; to is clamped to the length
Slice(t, from, to) == SubSeq(t, from + 1, Min(to, Len(t)))

\* text.slice(from)
SliceFrom(t, from) == SubSeq(t, from + 1, Len(t))

\* variant of LastIndexOf that ignores the position: text.lastIndexOf(s)
LastIndexOfAnywhere(t, s, position) ==
  LET hi == Len(t) - Len(s)
      occ == {i \in 0..hi : \A k \in 1..Len(s) : t[i + k] = s[k]}
  IN  IF occ = {} THEN -1 ELSE SetMax(occ)

\* text.lastIndexOf(s, position): the greatest index i <= position at which
\* an occurrence of s starts, or -1
LastIndexOf(t, s, position) ==
  LET hi == Min(position, Len(t) - Len(s))
      occ == {i \in 0..hi : \A k \in 1..Len(s) : t[i + k] = s[k]}
  IN  IF occ = {} THEN -1 ELSE SetMax(occ)

\* text.includes(s)
Includes(t, s) ==
  \E i \in 0..(Len(t) - Len(s)) : \A k \in 1..Len(s) : t[i + k] = s[k]

RECURSIVE Concat(_)
\* chunks.join("")
Concat(ss) == IF ss = <<>> THEN <<>> ELSE Head(ss) \o Concat(Tail(ss))

RECURSIVE JoinWith(_, _)
\* parts.join(sep)
JoinWith(ss, sep) ==
  IF ss = <<>> THEN <<>>
  ELSE IF Len(ss) = 1 THEN ss[1]
  ELSE ss[1] \o sep \o JoinWith(Tail(ss), sep)

ParagraphBreak == <<"\n", "\n">>

SentenceEnd == <<".", " ">>

\* ------------------------------------------------------------------------
\* chunkText: choice of the break point of one loop iteration
\* ------------------------------------------------------------------------
\* variant of BreakPoint that only tests whether a paragraph break was found
\* (-1), not whether it lies after startIndex
BreakPointAnyParagraph(t, startIndex, endIndex) ==
  LET para == LastIndexOf(t, ParagraphBreak, endIndex)
      sent == LastIndexOf(t, SentenceEnd, endIndex)
  IN  IF para < 0
      THEN IF sent <= startIndex THEN endIndex ELSE sent + 2
      ELSE para + 2

\* variant of BreakPoint that only tests whether a sentence end was found
BreakPointAnySentence(t, startIndex, endIndex) ==
  LET para == LastIndexOf(t, ParagraphBreak, endIndex)
      sent == LastIndexOf(t, SentenceEnd, endIndex)
  IN  IF para <= startIndex
      THEN IF sent < 0 THEN endIndex ELSE sent + 2
      ELSE para + 2

\* variant of BreakPoint that looks for a sentence end first
BreakPointSentenceFirst(t, startIndex, endIndex) ==
  LET para == LastIndexOf(t, ParagraphBreak, endIndex)
      sent == LastIndexOf(t, SentenceEnd, endIndex)
  IN  IF sent <= startIndex
      THEN IF para <= startIndex THEN endIndex ELSE para + 2
      ELSE sent + 2

\* lines 270-283
BreakPoint(t, startIndex, endIndex) ==
  LET para == LastIndexOf(t, ParagraphBreak, endIndex)
      sent == LastIndexOf(t, SentenceEnd, endIndex)
  IN  IF para <= startIndex
      THEN IF sent <= startIndex THEN endIndex ELSE sent + 2
      ELSE para + 2

RECURSIVE ChunkLoop(_, _, _, _)
\* the while loop of chunkText, from startIndex with the chunks so far
ChunkLoop(t, maxChunkSize, startIndex, acc) ==
  IF ~(startIndex < Len(t)) THEN acc
  ELSE LET endIndex == startIndex + maxChunkSize
       IN  IF endIndex >= Len(t)
           THEN Append(acc, SliceFrom(t, startIndex))
           ELSE LET bp == BreakPoint(t, startIndex, endIndex)
                IN  ChunkLoop(t, maxChunkSize, bp,
                              Append(acc, Slice(t, startIndex, bp)))

\* chunkText(text, maxChunkSize) as a function of its arguments
ChunkText(t, maxChunkSize) ==
  IF Len(t) <= maxChunkSize THEN <<t>>
  ELSE ChunkLoop(t, maxChunkSize, 0, <<>>)

\* ------------------------------------------------------------------------
\* Program constants and bounds of the pipeline specification
\* ------------------------------------------------------------------------
\* chunkText(text, 4000) in generateFlashcardsFromText
FlashcardChunkSize == 4000

\* chunkText(text, 6000) in generateSummaryFromText
SummaryChunkSize == 6000

\* wordLimit of a partial summary and of a final summary
PartialWordLimit == 250

FinalWordLimit == 500

\* the longest document has MaxExtraChunks * SummaryChunkSize + 1 characters
MaxExtraChunks == 2

Rep(c, n) == [i \in 1..n |-> c]

\* texts handed to the pipeline: short ones (empty, blank, one word), long
\* ones without any separator, and one with a paragraph break that starts
\* exactly at the flashcard chunk limit
\* texts of 9000 characters: without any separator, with a paragraph break
\* after the first ten characters, with a sentence end just before the
\* flashcard chunk limit
Texts9000 ==
  { Rep("a", 9000),
    Rep("a", 10) \o ParagraphBreak \o Rep("a", 8988),
    Rep("a", FlashcardChunkSize - 1) \o SentenceEnd \o Rep("a", 8999 - FlashcardChunkSize) }

\* and one with a paragraph break that starts exactly at the summary chunk
\* limit
DocTexts ==
  {<<>>, <<" ">>, <<"a">>}
  \cup {Rep("a", k * SummaryChunkSize + 1) : k \in 1..MaxExtraChunks}
  \cup {Rep("a", FlashcardChunkSize) \o ParagraphBreak \o Rep("a", 5)}
  \cup {Rep("a", SummaryChunkSize) \o ParagraphBreak \o Rep("a", 5)}
  \cup Texts9000

\* the word ceiling of POST /api/generate-from-text
MaxWords == 5000

\* a text of MaxWords + 1 one-letter words
ManyWordsText == [i \in 1..(2 * MaxWords + 1) |-> IF i % 2 = 1 THEN "a" ELSE " "]

IsWhitespace(c) == c \in {" ", "\n"}

\* text.split(/\s+/).length: one more than the number of whitespace runs
WordCount(t) ==
  Cardinality({i \in 1..Len(t) : IsWhitespace(t[i]) /\ (i = 1 \/ ~IsWhitespace(t[i - 1]))}) + 1

\* ------------------------------------------------------------------------
\* Generation options and buildSystemPrompt
\* ------------------------------------------------------------------------
Flags == {"generateDefinitions", "generateConcepts", "includeMultipleChoice"}

\* a GenerateOptions record: every flag is optional
OptionRecords == UNION {[D -> BOOLEAN] : D \in SUBSET Flags}

\* destructuring with default true (lines 109-113)
Flag(options, f) == IF f \in DOMAIN options THEN options[f] ELSE TRUE

\* variant of buildSystemPrompt that adds the direct-answer clause when
\* includeMultipleChoice is true
buildSystemPromptClauseOnChoice(options) ==
  <<"BASE: exactly 4 answer options, correct answer in options">>
  \o (IF Flag(options, "generateDefinitions") THEN <<"DEFINITIONS">> ELSE <<>>)
  \o (IF Flag(options, "generateConcepts") THEN <<"CONCEPTS">> ELSE <<>>)
  \o (IF Flag(options, "includeMultipleChoice") THEN <<"DIRECT ANSWER">> ELSE <<>>)

\* the prompt as the sequence of its clauses (lines 115-149)
buildSystemPrompt(options) ==
  <<"BASE: exactly 4 answer options, correct answer in options">>
  \o (IF Flag(options, "generateDefinitions") THEN <<"DEFINITIONS">> ELSE <<>>)
  \o (IF Flag(options, "generateConcepts") THEN <<"CONCEPTS">> ELSE <<>>)
  \o (IF ~Flag(options, "includeMultipleChoice") THEN <<"DIRECT ANSWER">> ELSE <<>>)

\* ------------------------------------------------------------------------
\* Error messages, as sequences of words
\* ------------------------------------------------------------------------
MsgNoKey == <<"OpenAI", "API", "key", "is", "not", "configured">>

MsgNoResponse == <<"No", "response", "from", "OpenAI", "API">>

MsgInvalidFormat == <<"Invalid", "response", "format", "from", "OpenAI", "API">>

MsgQuota == <<"OpenAI", "API", "quota", "exceeded", ".", "Please", "update", "your", "API", "key", ".">>

MsgTypeError == <<"Cannot", "read", "properties", "of", "null">>

MsgNoText == <<"No", "text", "could", "be", "extracted", "from", "the", "document">>

MsgExtractFailed == <<"Failed", "to", "extract", "text", "from", "PDF", "document">>

PrefixFlashcards == <<"Failed", "to", "generate", "flashcards", ":">>

PrefixSummary == <<"Failed", "to", "generate", "summary", ":">>

SigQuota1 == <<"exceeded", "your", "current", "quota">>

SigQuota2 == <<"insufficient_quota">>

\* messages of the errors the upstream client throws
UpstreamErrorMessages ==
  { <<"429", "You", "exceeded", "your", "current", "quota", ",", "please", "check", "your", "plan">>,
    <<"429", "insufficient_quota">>,
    <<"429", "Rate", "limit", "reached">>,
    <<"You", "exceeded", "your", "quota">>,
    <<"Connection", "error", ".">> }

\* variant of HasQuotaSignature that knows only the first signature
HasQuotaSignatureFirstOnly(errorMessage) ==
  Includes(errorMessage, SigQuota1)

\* the test of the inner catch blocks (lines 88-89, 239-240)
HasQuotaSignature(errorMessage) ==
  Includes(errorMessage, SigQuota1) \/ Includes(errorMessage, SigQuota2)

\* the error leaving an inner catch block (lines 84-95, 235-246)
Classify(errorMessage) ==
  IF HasQuotaSignature(errorMessage) THEN MsgQuota ELSE errorMessage

\* ------------------------------------------------------------------------
\* Upstream responses
\* ------------------------------------------------------------------------
\* a JSON value of a top-level field
JUndefined == [t |-> "undefined", cards |-> <<>>, str |-> <<>>, num |-> 0]

JString(s) == [t |-> "string", cards |-> <<>>, str |-> s, num |-> 0]

JNumber(n) == [t |-> "number", cards |-> <<>>, str |-> <<>>, num |-> n]

JArray(cs) == [t |-> "array", cards |-> cs, str |-> <<>>, num |-> 0]

RECURSIVE Digits(_)
\* String(n) for a natural number n
Digits(n) ==
  LET d == <<"0", "1", "2", "3", "4", "5", "6", "7", "8", "9">>
  IN  IF n < 10 THEN <<d[n + 1]>> ELSE Digits(n \div 10) \o <<d[(n % 10) + 1]>>

\* the string Array.prototype.join makes of a truthy summary value
ToJsString(v) == IF v.t = "number" THEN Digits(v.num) ELSE v.str

\* JavaScript truthiness of a field value
Truthy(v) ==
  \/ v.t = "string" /\ v.str # <<>>
  \/ v.t = "number" /\ v.num # 0
  \/ v.t \in {"array", "object"}

IsArray(v) == v.t = "array"

Card(q, a, os) == [question |-> q, correctAnswer |-> a, options |-> os]

CardValid == Card("Q1", "A", <<"A", "B", "C", "D">>)

\* the correct answer is not among the options
CardNoAnswer == Card("Q2", "A", <<"B", "C", "D", "E">>)

\* fewer than four options
CardTwoOptions == Card("Q3", "A", <<"A", "B">>)

CardLists == { <<>>, <<CardValid>>, <<CardNoAnswer, CardTwoOptions>> }

\* the longest partial summary the upstream returns
LongSummaryLen == 2500

SummaryStrings == { <<"s">>, <<"t", " ", "u">>, Rep("s", LongSummaryLen) }

\* message.content: absent/empty, text that is not JSON, JSON null, or a
\* JSON object with its flashcards and summary fields
NoContent == [kind |-> "none", raw |-> <<>>, flashcards |-> JUndefined, summary |-> JUndefined]

NotJson(raw) == [kind |-> "text", raw |-> raw, flashcards |-> JUndefined, summary |-> JUndefined]

JsonNull == [kind |-> "null", raw |-> <<>>, flashcards |-> JUndefined, summary |-> JUndefined]

JsonObject(f, s) == [kind |-> "object", raw |-> <<>>, flashcards |-> f, summary |-> s]

\* the message of the SyntaxError of JSON.parse: engines differ in whether
\* they quote the offending text
ParseErrorMessages(raw) ==
  { <<"Unexpected", "token", "in", "JSON", "at", "position", "0">>,
    <<"Unexpected", "token", ",">> \o raw \o <<"is", "not", "valid", "JSON">> }

FlashcardContents ==
  {NoContent, NotJson(<<"oops">>), JsonNull,
   JsonObject(JUndefined, JString(<<"s">>)),
   JsonObject(JString(<<"x">>), JUndefined)}
  \cup {JsonObject(JArray(cs), JUndefined) : cs \in CardLists}

SummaryContents ==
  {NoContent, NotJson(<<"oops">>), JsonNull,
   JsonObject(JArray(<<>>), JUndefined),
   JsonObject(JUndefined, JString(<<>>)),
   JsonObject(JUndefined, JNumber(42))}
  \cup {JsonObject(JUndefined, JString(s)) : s \in SummaryStrings}

\* what the code after the await does with message.content for a flashcard
\* call (lines 64-81): the thrown message, or <<>> and the mapped cards
FlashcardThrows(c) ==
  IF c.kind = "none" THEN {MsgNoResponse}
  ELSE IF c.kind = "text" THEN ParseErrorMessages(c.raw)
  ELSE IF c.kind = "null" THEN {MsgTypeError}
  ELSE IF ~Truthy(c.flashcards) \/ ~IsArray(c.flashcards) THEN {MsgInvalidFormat}
  ELSE {}

\* lines 76-81
MapCards(cs) ==
  [i \in 1..Len(cs) |->
     [question |-> cs[i].question, correctAnswer |-> cs[i].correctAnswer,
      options |-> cs[i].options, collectionId |-> 0]]

\* the same for summarizeSingleChunk (lines 223-234)
SummaryThrows(c) ==
  IF c.kind = "none" THEN {MsgNoResponse}
  ELSE IF c.kind = "text" THEN ParseErrorMessages(c.raw)
  ELSE IF c.kind = "null" THEN {MsgTypeError}
  ELSE IF ~Truthy(c.summary) THEN {MsgInvalidFormat}
  ELSE {}

\* ------------------------------------------------------------------------
\* State
\* ------------------------------------------------------------------------
VARIABLES
  text,          \* the text argument of chunkText / of the generation function
  maxChunkSize,  \* chunkText's maxChunkSize argument
  startIndex,    \* chunkText's startIndex
  chunks,        \* chunkText's chunks array
  cpc,           \* position in chunkText: "entry", "loop", "done" ("off" in the pipeline)
  apiKey,        \* process.env.OPENAI_API_KEY is set
  form,          \* the flag fields of the upload request's form (<<>> in other requests)
  caller,        \* "upload", "text", "summarize", "summarizeDocument" (routes),
                 \* "generateFlashcards", "generateSummary" (direct calls), "none" before
  options,       \* the GenerateOptions argument
  contentChunks, \* contentChunks of the generation function (<<>> before chunking)
  idx,           \* number of chunks the for-of loop has finished
  allFlashcards, \* allFlashcards of generateFlashcardsFromText
  chunkSummaries,\* chunkSummaries of generateSummaryFromText
  calls,         \* the upstream calls issued so far, in order
  replies,       \* the upstream's answers so far, in order
  caught,        \* message of the error caught by an inner catch block (<<>> if none)
  pc,            \* position of the request
  result,        \* value returned by the generation function
  error,         \* message of the error thrown by the generation function
  collections,   \* storage: collections table
  documents,     \* storage: documents table
  flashcards,    \* storage: flashcards table
  activities,    \* storage: activities table
  response,      \* the HTTP response of the route
  toast,         \* Upload.tsx: the toast the upload page shows (title, description)
  inv,           \* the local state of each of the concurrent invocations
  deletePc,      \* position of the DELETE /api/collections/:id request
  deleteStatus,  \* status of the response of the DELETE request (0 before)
  flashcardsData,         \* Quiz.tsx: for each flashcard of the collection, whether
                          \* the option the user picks for it is the correct answer
  currentQuestionIndex,   \* Quiz.tsx state (0-based)
  selectedOption,         \* Quiz.tsx state: "null", "correct" or "wrong"
  isAnswerRevealed,       \* Quiz.tsx state
  score,                  \* Quiz.tsx state
  quizCompleted,          \* Quiz.tsx state
  answeredQuestions       \* Quiz.tsx state

chunkVars == <<maxChunkSize, startIndex, chunks, cpc>>

storageVars == <<collections, documents, flashcards, activities>>

genVars == <<contentChunks, idx, allFlashcards, chunkSummaries, calls, replies, caught, result, error>>

pipeVars == <<apiKey, form, caller, options, genVars, pc, storageVars, response>>

deleteVars == <<deletePc, deleteStatus>>

quizVars == <<flashcardsData, currentQuestionIndex, selectedOption, isAnswerRevealed, score,
              quizCompleted, answeredQuestions>>

\* the state outside the generation pipeline of one request
otherVars == <<toast, inv, deleteVars, quizVars>>

vars == <<text, chunkVars, pipeVars, otherVars>>

NoResult == [kind |-> "none", cards |-> <<>>, summary |-> <<>>]

NoResponse == [status |-> 0, message |-> <<>>, error |-> <<>>, flashcardsCount |-> 0]

\* the pipeline at rest, as in the chunker specification
PipeIdle ==
  /\ caller = "none"
  /\ form = <<>>
  /\ options = <<>>
  /\ contentChunks = <<>>
  /\ idx = 0
  /\ allFlashcards = <<>>
  /\ chunkSummaries = <<>>
  /\ calls = <<>>
  /\ replies = <<>>
  /\ caught = <<>>
  /\ pc = "idle"
  /\ result = NoResult
  /\ error = <<>>
  /\ collections = <<>>
  /\ documents = <<>>
  /\ flashcards = <<>>
  /\ activities = <<>>
  /\ response = NoResponse

NoToast == [title |-> <<>>, description |-> <<>>]

\* the upload page, the concurrent invocations, the DELETE request and the
\* quiz at rest, as in the specifications that do not run them
QuizIdle ==
  /\ flashcardsData = <<>>
  /\ currentQuestionIndex = 0
  /\ selectedOption = "null"
  /\ isAnswerRevealed = FALSE
  /\ score = 0
  /\ quizCompleted = FALSE
  /\ answeredQuestions = <<>>

OtherIdle ==
  /\ toast = NoToast
  /\ inv = <<>>
  /\ deletePc = "off"
  /\ deleteStatus = 0
  /\ QuizIdle

RECURSIVE SeqsUpTo(_, _)
\* all sequences over S of length at most n
SeqsUpTo(S, n) ==
  IF n = 0 THEN {<<>>}
  ELSE LET shorter == SeqsUpTo(S, n - 1)
       IN  shorter \cup {Append(s, c) : s \in {x \in shorter : Len(x) = n - 1}, c \in S}

Texts == SeqsUpTo(Alphabet, MaxTextLen)

\* ------------------------------------------------------------------------
\* chunkText as a state machine, one action per loop iteration
\* ------------------------------------------------------------------------
InitChunk ==
  /\ text \in Texts
  /\ maxChunkSize \in 1..MaxChunkSizeBound
  /\ startIndex = 0
  /\ chunks = <<>>
  /\ cpc = "entry"
  /\ apiKey = TRUE
  /\ PipeIdle
  /\ OtherIdle

\* lines 256-258: the text fits in one chunk
ChunkSingle ==
  /\ cpc = "entry"
  /\ Len(text) <= maxChunkSize
  /\ chunks' = <<text>>
  /\ cpc' = "done"
  /\ UNCHANGED <<text, maxChunkSize, startIndex, pipeVars, otherVars>>

\* variant of ChunkEnterLoop without the early return of lines 256-258
ChunkEnterLoopAlways ==
  /\ cpc = "entry"
  /\ startIndex' = 0
  /\ cpc' = "loop"
  /\ UNCHANGED <<text, maxChunkSize, chunks, pipeVars, otherVars>>

\* lines 261-262: enter the loop
ChunkEnterLoop ==
  /\ cpc = "entry"
  /\ ~(Len(text) <= maxChunkSize)
  /\ startIndex' = 0
  /\ cpc' = "loop"
  /\ UNCHANGED <<text, maxChunkSize, chunks, pipeVars, otherVars>>

\* lines 265-268: the rest of the text is the last chunk
ChunkLast ==
  /\ cpc = "loop"
  /\ startIndex < Len(text)
  /\ startIndex + maxChunkSize >= Len(text)
  /\ chunks' = Append(chunks, SliceFrom(text, startIndex))
  /\ cpc' = "done"
  /\ UNCHANGED <<text, maxChunkSize, startIndex, pipeVars, otherVars>>

\* lines 270-286: cut one chunk and advance
ChunkCut ==
  /\ cpc = "loop"
  /\ startIndex < Len(text)
  /\ startIndex + maxChunkSize < Len(text)
  /\ LET bp == BreakPoint(text, startIndex, startIndex + maxChunkSize)
     IN  /\ chunks' = Append(chunks, Slice(text, startIndex, bp))
         /\ startIndex' = bp
  /\ UNCHANGED <<text, maxChunkSize, cpc, pipeVars, otherVars>>

\* line 262 false: the loop condition fails, return chunks
ChunkExit ==
  /\ cpc = "loop"
  /\ ~(startIndex < Len(text))
  /\ cpc' = "done"
  /\ UNCHANGED <<text, maxChunkSize, startIndex, chunks, pipeVars, otherVars>>

NextChunk ==
  \/ ChunkSingle
  \/ ChunkEnterLoop
  \/ ChunkLast
  \/ ChunkCut
  \/ ChunkExit

SpecChunk == InitChunk /\ [][NextChunk]_vars

\* the loop is straight-line code: it keeps running while it can
SpecChunkFair == SpecChunk /\ WF_vars(NextChunk)

\* ------------------------------------------------------------------------
\* The generation pipeline (specification Spec)
\* ------------------------------------------------------------------------
\* options records passed by direct callers of generateFlashcardsFromText
OptionChoices ==
  { [f \in {} |-> TRUE],
    [generateDefinitions |-> FALSE],
    [generateDefinitions |-> TRUE, generateConcepts |-> FALSE, includeMultipleChoice |-> FALSE] }

\* values of a multipart form field of the upload request
FormValues == {"true", "false", "absent"}

\* the forms of the upload requests: every choice of the flags sent as
\* "true", the others left out of the form when their number is odd and
\* sent as "false" when it is even, and the form with every flag left out
\* or sent as "false"
UploadForms ==
  { [f \in Flags |-> IF f \in D THEN "true"
                     ELSE IF Cardinality(Flags \ D) % 2 = 1 THEN "absent" ELSE "false"]
      : D \in SUBSET Flags }
  \cup { [f \in Flags |-> v] : v \in FormValues }

FlashcardCall(systemPrompt, chunk) ==
  [fn |-> "flashcards", system |-> systemPrompt, wordLimit |-> 0,
   isPartial |-> FALSE, input |-> chunk]

\* variant of SummaryCall with the final word limit for every request
SummaryCallOneLimit(t, isPartialSummary) ==
  [fn |-> "summary", system |-> <<"SUMMARY">>, wordLimit |-> FinalWordLimit,
   isPartial |-> isPartialSummary, input |-> t]

\* the request summarizeSingleChunk sends (lines 191-221)
SummaryCall(t, isPartialSummary) ==
  [fn |-> "summary", system |-> <<"SUMMARY">>,
   wordLimit |-> IF isPartialSummary THEN PartialWordLimit ELSE FinalWordLimit,
   isPartial |-> isPartialSummary, input |-> t]

Throws(m) == [kind |-> "throw", message |-> m, content |-> NoContent]

Answers(c) == [kind |-> "content", message |-> <<>>, content |-> c]

FlashcardReplies ==
  {Throws(m) : m \in UpstreamErrorMessages} \cup {Answers(c) : c \in FlashcardContents}

SummaryReplies ==
  {Throws(m) : m \in UpstreamErrorMessages} \cup {Answers(c) : c \in SummaryContents}

\* text.trim().length === 0
IsBlank(t) == \A i \in 1..Len(t) : t[i] \in {" ", "\n"}

\* the routes that run the pipeline
Routes == {"upload", "text", "summarize"}

\* the message of a route's 500 response
RouteFailure(route) ==
  IF route = "upload" THEN <<"Failed", "to", "process", "document">>
  ELSE IF route = "text" THEN <<"Failed", "to", "generate", "flashcards">>
  ELSE <<"Failed", "to", "generate", "summary">>

Init ==
  /\ text = <<>>
  /\ maxChunkSize = 0
  /\ startIndex = 0
  /\ chunks = <<>>
  /\ cpc = "off"
  /\ apiKey \in BOOLEAN
  /\ PipeIdle
  /\ OtherIdle

\* variant of FailWith that reports the fixed prefix without the message
FailWithNoDetail(prefix, m) ==
  /\ error' = prefix
  /\ pc' = "failed"
  /\ response' = IF caller \in Routes
                 THEN [status |-> 500, message |-> RouteFailure(caller),
                       error |-> prefix, flashcardsCount |-> 0]
                 ELSE response

\* an error leaves the generation function through its outer catch block
\* (lines 99-102, 182-185); in the upload request it passes through the catch
\* block of processDocumentAndGenerateFlashcards to the route's catch block
\* (routes.ts lines 236-242); in the other routes to the route's catch block
\* (routes.ts lines 360-366, 514-520)
FailWith(prefix, m) ==
  /\ error' = prefix \o m
  /\ pc' = "failed"
  /\ response' = IF caller \in Routes
                 THEN [status |-> 500, message |-> RouteFailure(caller),
                       error |-> prefix \o m, flashcardsCount |-> 0]
                 ELSE response

\* ---- POST /api/documents/upload ----------------------------------------
\* routes.ts lines 166-176: no file or no title
UploadBadRequest ==
  /\ pc = "idle"
  /\ \E m \in {<<"No", "file", "uploaded">>, <<"Collection", "title", "is", "required">>} :
       response' = [status |-> 400, message |-> m, error |-> <<>>, flashcardsCount |-> 0]
  /\ caller' = "upload"
  /\ pc' = "responded"
  /\ UNCHANGED <<text, chunkVars, apiKey, otherVars, form, options, genVars, storageVars>>

\* routes.ts lines 178-217: create the collection, the document and the
\* upload activity, read the options from the form
UploadStart ==
  /\ pc = "idle"
  /\ \E f \in UploadForms :
       /\ form' = f
       /\ options' = [generateDefinitions |-> f.generateDefinitions = "true",
                      generateConcepts |-> f.generateConcepts = "true",
                      includeMultipleChoice |-> f.includeMultipleChoice = "true"]
  /\ collections' = Append(collections, [id |-> Len(collections) + 1])
  /\ documents' = Append(documents, [id |-> Len(documents) + 1,
                                     collectionId |-> Len(collections) + 1])
  /\ activities' = Append(activities, [type |-> "upload", entityId |-> Len(documents) + 1])
  /\ caller' = "upload"
  /\ pc' = "extract"
  /\ UNCHANGED <<text, chunkVars, apiKey, otherVars, genVars, flashcards, response>>

\* document-processor.ts lines 84-93: extract the text; extraction fails,
\* yields no usable text, or yields a text
ProcessDocument ==
  /\ pc = "extract"
  /\ \/ /\ pc' = "failed"
        /\ response' = [status |-> 500, message |-> <<"Failed", "to", "process", "document">>,
                        error |-> MsgExtractFailed, flashcardsCount |-> 0]
        /\ UNCHANGED text
     \/ \E t \in DocTexts :
          /\ text' = t
          /\ IF IsBlank(t)
             THEN /\ pc' = "failed"
                  /\ response' = [status |-> 500,
                                  message |-> <<"Failed", "to", "process", "document">>,
                                  error |-> MsgNoText, flashcardsCount |-> 0]
             ELSE /\ pc' = "gf_entry"
                  /\ UNCHANGED response
  /\ UNCHANGED <<chunkVars, apiKey, otherVars, form, caller, options, genVars, storageVars>>

\* ---- generateFlashcardsFromText ----------------------------------------
\* a direct call generateFlashcardsFromText(text, options)
CallGenerateFlashcards ==
  /\ pc = "idle"
  /\ \E t \in DocTexts, o \in OptionChoices :
       /\ text' = t
       /\ options' = o
  /\ caller' = "generateFlashcards"
  /\ pc' = "gf_entry"
  /\ UNCHANGED <<chunkVars, apiKey, otherVars, form, genVars, storageVars, response>>

\* variant of GfEntry that chunks with the budget of the summaries
GfEntrySummaryBudget ==
  /\ pc = "gf_entry"
  /\ IF ~apiKey
     THEN /\ FailWith(PrefixFlashcards, MsgNoKey)
          /\ UNCHANGED contentChunks
     ELSE /\ contentChunks' = ChunkText(text, SummaryChunkSize)
          /\ pc' = "gf_loop"
          /\ UNCHANGED <<error, response>>
  /\ UNCHANGED <<text, chunkVars, apiKey, otherVars, form, caller, options, idx, allFlashcards,
                 chunkSummaries, calls, replies, caught, result, storageVars>>

\* lines 34-42: check the key, chunk the text
GfEntry ==
  /\ pc = "gf_entry"
  /\ IF ~apiKey
     THEN /\ FailWith(PrefixFlashcards, MsgNoKey)
          /\ UNCHANGED contentChunks
     ELSE /\ contentChunks' = ChunkText(text, FlashcardChunkSize)
          /\ pc' = "gf_loop"
          /\ UNCHANGED <<error, response>>
  /\ UNCHANGED <<text, chunkVars, apiKey, otherVars, form, caller, options, idx, allFlashcards,
                 chunkSummaries, calls, replies, caught, result, storageVars>>

\* variant of GfCall that takes the chunks from the last one to the first
GfCallBackwards ==
  /\ pc = "gf_loop"
  /\ idx < Len(contentChunks)
  /\ calls' = Append(calls, FlashcardCall(buildSystemPrompt(options),
                                          contentChunks[Len(contentChunks) - idx]))
  /\ pc' = "gf_await"
  /\ UNCHANGED <<text, chunkVars, apiKey, otherVars, form, caller, options, contentChunks, idx, allFlashcards,
                 chunkSummaries, replies, caught, result, error, storageVars, response>>

\* lines 45-62: the next chunk's request is sent
GfCall ==
  /\ pc = "gf_loop"
  /\ idx < Len(contentChunks)
  /\ calls' = Append(calls, FlashcardCall(buildSystemPrompt(options), contentChunks[idx + 1]))
  /\ pc' = "gf_await"
  /\ UNCHANGED <<text, chunkVars, apiKey, otherVars, form, caller, options, contentChunks, idx, allFlashcards,
                 chunkSummaries, replies, caught, result, error, storageVars, response>>

\* variant of GfFail that stops the loop and returns the cards gathered so far
GfFailPartial(m) ==
  /\ caught' = m
  /\ result' = [kind |-> "flashcards", cards |-> allFlashcards, summary |-> <<>>]
  /\ pc' = "returned"
  /\ UNCHANGED <<idx, allFlashcards, error, response>>

\* lines 84-95 and 99-102: the inner catch block classifies the error m, the
\* outer one wraps it; nothing is returned
GfFail(m) ==
  /\ caught' = m
  /\ FailWith(PrefixFlashcards, Classify(m))
  /\ UNCHANGED <<idx, allFlashcards, result>>

\* variant of GfResolve that puts the cards of a chunk in front of the
\* accumulated ones
GfResolvePrepend ==
  /\ pc = "gf_await"
  /\ \E r \in FlashcardReplies :
       /\ replies' = Append(replies, r)
       /\ IF r.kind = "throw"
          THEN GfFail(r.message)
          ELSE IF FlashcardThrows(r.content) # {}
               THEN \E m \in FlashcardThrows(r.content) : GfFail(m)
               ELSE /\ allFlashcards' = MapCards(r.content.flashcards.cards) \o allFlashcards
                    /\ idx' = idx + 1
                    /\ pc' = "gf_loop"
                    /\ UNCHANGED <<caught, result, error, response>>
  /\ UNCHANGED <<text, chunkVars, apiKey, otherVars, form, caller, options, contentChunks,
                 chunkSummaries, calls, storageVars>>

\* lines 64-96: the request resolves: an upstream error, or a content that
\* is rejected, or cards that are appended
GfResolve ==
  /\ pc = "gf_await"
  /\ \E r \in FlashcardReplies :
       /\ replies' = Append(replies, r)
       /\ IF r.kind = "throw"
          THEN GfFail(r.message)
          ELSE IF FlashcardThrows(r.content) # {}
               THEN \E m \in FlashcardThrows(r.content) : GfFail(m)
               ELSE /\ allFlashcards' = allFlashcards \o MapCards(r.content.flashcards.cards)
                    /\ idx' = idx + 1
                    /\ pc' = "gf_loop"
                    /\ UNCHANGED <<caught, result, error, response>>
  /\ UNCHANGED <<text, chunkVars, apiKey, otherVars, form, caller, options, contentChunks,
                 chunkSummaries, calls, storageVars>>

\* variant of GfReturn that rejects an empty list of candidates
GfReturnRequireCards ==
  /\ pc = "gf_loop"
  /\ idx = Len(contentChunks)
  /\ IF allFlashcards = <<>>
     THEN /\ FailWith(PrefixFlashcards, MsgInvalidFormat)
          /\ UNCHANGED result
     ELSE /\ result' = [kind |-> "flashcards", cards |-> allFlashcards, summary |-> <<>>]
          /\ pc' = "returned"
          /\ UNCHANGED <<error, response>>
  /\ UNCHANGED <<text, chunkVars, apiKey, otherVars, form, caller, options, contentChunks, idx, allFlashcards,
                 chunkSummaries, calls, replies, caught, storageVars>>

\* line 98: all chunks are done
GfReturn ==
  /\ pc = "gf_loop"
  /\ idx = Len(contentChunks)
  /\ result' = [kind |-> "flashcards", cards |-> allFlashcards, summary |-> <<>>]
  /\ pc' = "returned"
  /\ UNCHANGED <<text, chunkVars, apiKey, otherVars, form, caller, options, contentChunks, idx, allFlashcards,
                 chunkSummaries, calls, replies, caught, error, storageVars, response>>

\* document-processor.ts lines 95-99 and routes.ts lines 219-235: stamp the
\* collection id, save the flashcards, record the activity, answer 201
UploadPersist ==
  /\ pc = "returned"
  /\ caller = "upload"
  /\ LET collectionId == collections[Len(collections)].id
         stamped == [i \in 1..Len(result.cards) |->
                       [result.cards[i] EXCEPT !.collectionId = collectionId]]
     IN  /\ flashcards' = flashcards \o stamped
         /\ activities' = Append(activities, [type |-> "generation", entityId |-> collectionId])
         /\ response' = [status |-> 201, message |-> <<>>, error |-> <<>>,
                         flashcardsCount |-> Len(stamped)]
  /\ pc' = "responded"
  /\ UNCHANGED <<text, chunkVars, apiKey, otherVars, form, caller, options, genVars, collections, documents>>

\* ---- generateSummaryFromText -------------------------------------------
\* a direct call generateSummaryFromText(text)
CallGenerateSummary ==
  /\ pc = "idle"
  /\ \E t \in DocTexts : text' = t
  /\ caller' = "generateSummary"
  /\ pc' = "gs_entry"
  /\ UNCHANGED <<chunkVars, apiKey, otherVars, form, options, genVars, storageVars, response>>

\* variant of GsEntry that chunks the text before it checks the key
GsEntryLateKeyCheck ==
  /\ pc = "gs_entry"
  /\ contentChunks' = ChunkText(text, SummaryChunkSize)
  /\ IF ~apiKey
     THEN FailWith(PrefixSummary, MsgNoKey)
     ELSE /\ pc' = IF Len(ChunkText(text, SummaryChunkSize)) > 1 THEN "gs_loop" ELSE "gs_single"
          /\ UNCHANGED <<error, response>>
  /\ UNCHANGED <<text, chunkVars, apiKey, otherVars, form, caller, options, idx, allFlashcards,
                 chunkSummaries, calls, replies, caught, result, storageVars>>

\* lines 157-167: check the key, chunk the text, choose the branch
GsEntry ==
  /\ pc = "gs_entry"
  /\ IF ~apiKey
     THEN /\ FailWith(PrefixSummary, MsgNoKey)
          /\ UNCHANGED contentChunks
     ELSE /\ contentChunks' = ChunkText(text, SummaryChunkSize)
          /\ pc' = IF Len(ChunkText(text, SummaryChunkSize)) > 1 THEN "gs_loop" ELSE "gs_single"
          /\ UNCHANGED <<error, response>>
  /\ UNCHANGED <<text, chunkVars, apiKey, otherVars, form, caller, options, idx, allFlashcards,
                 chunkSummaries, calls, replies, caught, result, storageVars>>

\* lines 170-171: the partial summary of the next chunk is requested
GsCallPartial ==
  /\ pc = "gs_loop"
  /\ idx < Len(contentChunks)
  /\ calls' = Append(calls, SummaryCall(contentChunks[idx + 1], TRUE))
  /\ pc' = "gs_await_partial"
  /\ UNCHANGED <<text, chunkVars, apiKey, otherVars, form, caller, options, contentChunks, idx, allFlashcards,
                 chunkSummaries, replies, caught, result, error, storageVars, response>>

\* variant of GsFail that swallows the error and goes on with the next chunk
GsFailSkip(m) ==
  /\ caught' = m
  /\ idx' = idx + 1
  /\ pc' = "gs_loop"
  /\ UNCHANGED <<chunkSummaries, result, error, response>>

\* lines 235-246 and 182-185: the catch block of summarizeSingleChunk
\* classifies the error m, the one of generateSummaryFromText wraps it
GsFail(m) ==
  /\ caught' = m
  /\ FailWith(PrefixSummary, Classify(m))
  /\ UNCHANGED <<idx, chunkSummaries, result>>

\* lines 223-246 and 172: the partial request resolves
GsResolvePartial ==
  /\ pc = "gs_await_partial"
  /\ \E r \in SummaryReplies :
       /\ replies' = Append(replies, r)
       /\ IF r.kind = "throw"
          THEN GsFail(r.message)
          ELSE IF SummaryThrows(r.content) # {}
               THEN \E m \in SummaryThrows(r.content) : GsFail(m)
               ELSE /\ chunkSummaries' = Append(chunkSummaries, r.content.summary)
                    /\ idx' = idx + 1
                    /\ pc' = "gs_loop"
                    /\ UNCHANGED <<caught, result, error, response>>
  /\ UNCHANGED <<text, chunkVars, apiKey, otherVars, form, caller, options, contentChunks,
                 allFlashcards, calls, storageVars>>

\* lines 175-177: the partial summaries are joined and summarized
GsCallFinal ==
  /\ pc = "gs_loop"
  /\ idx = Len(contentChunks)
  /\ LET combinedSummaries ==
           JoinWith([i \in 1..Len(chunkSummaries) |-> ToJsString(chunkSummaries[i])],
                    ParagraphBreak)
     IN  calls' = Append(calls, SummaryCall(combinedSummaries, FALSE))
  /\ pc' = "gs_await_final"
  /\ UNCHANGED <<text, chunkVars, apiKey, otherVars, form, caller, options, contentChunks, idx, allFlashcards,
                 chunkSummaries, replies, caught, result, error, storageVars, response>>

\* line 180: the only chunk is summarized directly
GsCallSingle ==
  /\ pc = "gs_single"
  /\ calls' = Append(calls, SummaryCall(contentChunks[1], FALSE))
  /\ pc' = "gs_await_final"
  /\ UNCHANGED <<text, chunkVars, apiKey, otherVars, form, caller, options, contentChunks, idx, allFlashcards,
                 chunkSummaries, replies, caught, result, error, storageVars, response>>

\* lines 223-246, 177 and 180: the last request resolves and its summary is
\* returned
GsResolveFinal ==
  /\ pc = "gs_await_final"
  /\ \E r \in SummaryReplies :
       /\ replies' = Append(replies, r)
       /\ IF r.kind = "throw"
          THEN GsFail(r.message)
          ELSE IF SummaryThrows(r.content) # {}
               THEN \E m \in SummaryThrows(r.content) : GsFail(m)
               ELSE /\ result' = [kind |-> "summary", cards |-> <<>>, summary |-> r.content.summary]
                    /\ pc' = "returned"
                    /\ UNCHANGED <<idx, chunkSummaries, caught, error, response>>
  /\ UNCHANGED <<text, chunkVars, apiKey, otherVars, form, caller, options, contentChunks,
                 allFlashcards, calls, storageVars>>

\* ---- POST /api/generate-from-text --------------------------------------
\* the texts a client may post
PostedTexts == DocTexts \cup {ManyWordsText}

\* routes.ts lines 449-466: no text, no title, or more than 5000 words
TextBadRequest ==
  /\ pc = "idle"
  /\ \E t \in PostedTexts, hasTitle \in BOOLEAN :
       /\ t = <<>> \/ ~hasTitle \/ WordCount(t) > MaxWords
       /\ text' = t
       /\ response' =
            [status |-> 400,
             message |-> IF t = <<>> THEN <<"Text", "content", "is", "required">>
                         ELSE IF ~hasTitle THEN <<"Collection", "title", "is", "required">>
                         ELSE <<"Text", "exceeds", "maximum", "allowed", "length">>,
             error |-> <<>>, flashcardsCount |-> 0]
  /\ caller' = "text"
  /\ pc' = "responded"
  /\ UNCHANGED <<chunkVars, apiKey, otherVars, form, options, genVars, storageVars>>

\* variant of TextStart without the check of the number of words
TextStartNoWordLimit ==
  /\ pc = "idle"
  /\ \E t \in PostedTexts :
       /\ t # <<>>
       /\ text' = t
  /\ options' = [generateDefinitions |-> TRUE, generateConcepts |-> TRUE,
                 includeMultipleChoice |-> TRUE]
  /\ collections' = Append(collections, [id |-> Len(collections) + 1])
  /\ caller' = "text"
  /\ pc' = "gf_entry"
  /\ UNCHANGED <<chunkVars, apiKey, otherVars, form, genVars, documents, flashcards, activities, response>>

\* routes.ts lines 449-481: the request is accepted, the collection is
\* created and generateFlashcardsFromText is called with all flags true
TextStart ==
  /\ pc = "idle"
  /\ \E t \in PostedTexts :
       /\ t # <<>>
       /\ ~(WordCount(t) > MaxWords)
       /\ text' = t
  /\ options' = [generateDefinitions |-> TRUE, generateConcepts |-> TRUE,
                 includeMultipleChoice |-> TRUE]
  /\ collections' = Append(collections, [id |-> Len(collections) + 1])
  /\ caller' = "text"
  /\ pc' = "gf_entry"
  /\ UNCHANGED <<chunkVars, apiKey, otherVars, form, genVars, documents, flashcards, activities, response>>

\* variant of TextPersist that saves the cards as generateFlashcardsFromText
\* returned them
TextPersistUnstamped ==
  /\ pc = "returned"
  /\ caller = "text"
  /\ LET collectionId == collections[Len(collections)].id
     IN  /\ flashcards' = flashcards \o result.cards
         /\ documents' = Append(documents, [id |-> Len(documents) + 1,
                                            collectionId |-> collectionId])
         /\ activities' = Append(activities, [type |-> "generation", entityId |-> collectionId])
         /\ response' = [status |-> 201, message |-> <<>>, error |-> <<>>,
                         flashcardsCount |-> Len(result.cards)]
  /\ pc' = "responded"
  /\ UNCHANGED <<text, chunkVars, apiKey, otherVars, form, caller, options, genVars, collections>>

\* routes.ts lines 483-513: set the collection id of every card, save the
\* cards, the document record and the activity, answer 201
TextPersist ==
  /\ pc = "returned"
  /\ caller = "text"
  /\ LET collectionId == collections[Len(collections)].id
         stamped == [i \in 1..Len(result.cards) |->
                       [result.cards[i] EXCEPT !.collectionId = collectionId]]
     IN  /\ flashcards' = flashcards \o stamped
         /\ documents' = Append(documents, [id |-> Len(documents) + 1,
                                            collectionId |-> collectionId])
         /\ activities' = Append(activities, [type |-> "generation", entityId |-> collectionId])
         /\ response' = [status |-> 201, message |-> <<>>, error |-> <<>>,
                         flashcardsCount |-> Len(stamped)]
  /\ pc' = "responded"
  /\ UNCHANGED <<text, chunkVars, apiKey, otherVars, form, caller, options, genVars, collections>>

\* ---- POST /api/summarize -----------------------------------------------
\* routes.ts lines 337-339: no file
SummarizeBadRequest ==
  /\ pc = "idle"
  /\ response' = [status |-> 400, message |-> <<"No", "file", "uploaded">>,
                  error |-> <<>>, flashcardsCount |-> 0]
  /\ caller' = "summarize"
  /\ pc' = "responded"
  /\ UNCHANGED <<text, chunkVars, apiKey, otherVars, form, options, genVars, storageVars>>

\* routes.ts lines 341-350: extract the text and call
\* generateSummaryFromText; the extraction may fail
SummarizeStart ==
  /\ pc = "idle"
  /\ caller' = "summarize"
  /\ \/ /\ pc' = "failed"
        /\ response' = [status |-> 500, message |-> RouteFailure("summarize"),
                        error |-> MsgExtractFailed, flashcardsCount |-> 0]
        /\ UNCHANGED text
     \/ \E t \in DocTexts :
          /\ text' = t
          /\ pc' = "gs_entry"
          /\ UNCHANGED response
  /\ UNCHANGED <<chunkVars, apiKey, otherVars, form, options, genVars, storageVars>>

\* routes.ts lines 352-359: the summary is sent back
SummarizeRespond ==
  /\ pc = "returned"
  /\ caller = "summarize"
  /\ response' = [status |-> 200, message |-> <<>>, error |-> <<>>, flashcardsCount |-> 0]
  /\ pc' = "responded"
  /\ UNCHANGED <<text, chunkVars, apiKey, otherVars, form, caller, options, genVars, storageVars>>

\* ---- POST /api/documents/:id/summarize ---------------------------------
\* routes.ts lines 285-307: the route is registered without the multer
\* middleware, so req.file is never set: every request ends at one of the
\* early returns, before the text is extracted
SummarizeDocumentRequest ==
  /\ pc = "idle"
  /\ \E id \in {0, 1} :
       response' =
         [status |-> IF id = 0 THEN 400
                     ELSE IF ~(\E i \in 1..Len(documents) : documents[i].id = id) THEN 404
                     ELSE 400,
          message |-> IF id = 0 THEN <<"Invalid", "document", "ID">>
                      ELSE IF ~(\E i \in 1..Len(documents) : documents[i].id = id)
                           THEN <<"Document", "not", "found">>
                           ELSE <<"Please", "reupload", "the", "document", "file">>,
          error |-> <<>>, flashcardsCount |-> 0]
  /\ caller' = "summarizeDocument"
  /\ pc' = "responded"
  /\ UNCHANGED <<text, chunkVars, apiKey, otherVars, form, options, genVars, storageVars>>

\* ---- the upload page (Upload.tsx) ---------------------------------------
\* lines 54-57: the error the mutation throws for a response that is not ok
ClientErrorMessage(resp) ==
  IF resp.message # <<>> THEN resp.message ELSE <<"Failed", "to", "upload", "document">>

ToastApiLimit ==
  [title |-> <<"OpenAI", "API", "Limit", "Reached">>,
   description |-> <<"The", "API", "key", "has", "reached", "its", "usage", "limit", ".",
                     "Please", "update", "the", "API", "key">>]

\* lines 71-91: onError
OnErrorToast(errorMessage) ==
  IF \/ Includes(errorMessage, <<"OpenAI", "API", "quota", "exceeded">>)
     \/ Includes(errorMessage, SigQuota1)
     \/ Includes(errorMessage, SigQuota2)
  THEN ToastApiLimit
  ELSE [title |-> <<"Error", "processing", "document">>, description |-> errorMessage]

\* lines 48-70: the response of the upload request arrives at the page: an
\* error is thrown for a status outside 200-299 and shown by onError, the
\* success toast is shown otherwise
UploadClientSettled ==
  /\ caller = "upload"
  /\ response.status # 0
  /\ toast = NoToast
  /\ toast' = IF response.status \in 200..299
              THEN [title |-> <<"Document", "processed", "successfully">>,
                    description |-> <<>>]
              ELSE OnErrorToast(ClientErrorMessage(response))
  /\ UNCHANGED <<text, chunkVars, pipeVars, inv, deleteVars, quizVars>>

Next ==
  \/ UploadBadRequest
  \/ UploadStart
  \/ ProcessDocument
  \/ CallGenerateFlashcards
  \/ GfEntry
  \/ GfCall
  \/ GfResolve
  \/ GfReturn
  \/ UploadPersist
  \/ CallGenerateSummary
  \/ GsEntry
  \/ GsCallPartial
  \/ GsResolvePartial
  \/ GsCallFinal
  \/ GsCallSingle
  \/ GsResolveFinal
  \/ TextBadRequest
  \/ TextStart
  \/ TextPersist
  \/ SummarizeBadRequest
  \/ SummarizeStart
  \/ SummarizeRespond
  \/ SummarizeDocumentRequest
  \/ UploadClientSettled

Spec == Init /\ [][Next]_vars

\* ------------------------------------------------------------------------
\* Concurrent invocations of the generation functions (specification
\* SpecConcurrent): each invocation has its own text, contentChunks,
\* allFlashcards and chunkSummaries, which are parameters and locals of the
\* functions; the module's only shared state is the client object and the
\* environment
\* ------------------------------------------------------------------------
Procs == {1, 2}

\* the documents of the two invocations
ConcTexts(p) ==
  IF p = 1 THEN {Rep("a", FlashcardChunkSize + 1)}
  ELSE {<<"b">>, Rep("b", SummaryChunkSize + 1)}

\* a candidate the upstream produces for the document of invocation p
ConcCard(p, k) == Card(<<"Q", p, k>>, "A", <<"A", "B", "C", "D">>)

\* the upstream's answers to a request of invocation p
ConcFlashcardReplies(p) ==
  { Answers(JsonObject(JArray(<<ConcCard(p, 1)>>), JUndefined)),
    Answers(JsonObject(JArray(<<ConcCard(p, 2), ConcCard(p, 3)>>), JUndefined)),
    Answers(NoContent),
    Throws(<<"429", "insufficient_quota">>) }

ConcSummaryReplies(p) ==
  { Answers(JsonObject(JUndefined, JString(<<"s", ToString(p)>>))),
    Answers(JsonObject(JUndefined, JString(<<"t", ToString(p)>>))),
    Answers(NoContent),
    Throws(<<"Connection", "error", ".">>) }

\* an invocation that has been called and has not run yet
Invocation(f, t) ==
  [fn |-> f, text |-> t, contentChunks |-> <<>>, idx |-> 0, allFlashcards |-> <<>>,
   chunkSummaries |-> <<>>, calls |-> <<>>, order |-> <<>>, replies |-> <<>>,
   pc |-> "entry", result |-> NoResult, error |-> <<>>]

InitConcurrent ==
  /\ text = <<>>
  /\ maxChunkSize = 0
  /\ startIndex = 0
  /\ chunks = <<>>
  /\ cpc = "off"
  /\ apiKey \in BOOLEAN
  /\ PipeIdle
  /\ toast = NoToast
  /\ deletePc = "off"
  /\ deleteStatus = 0
  /\ QuizIdle
  /\ inv \in [Procs -> UNION { {Invocation(f, t) : f \in {"flashcards", "summary"},
                                                  t \in ConcTexts(p)} : p \in Procs }]
  /\ \A p \in Procs : inv[p].text \in ConcTexts(p)

\* the number of upstream calls issued so far by all invocations
CallsIssued == Len(inv[1].calls) + Len(inv[2].calls)

ConcUnchanged == UNCHANGED <<text, chunkVars, pipeVars, toast, deleteVars, quizVars>>

\* the outer catch block (lines 99-102, 182-185)
ConcFail(p, prefix, m, rs) ==
  inv' = [inv EXCEPT ![p].error = prefix \o m, ![p].pc = "failed", ![p].replies = rs]

\* lines 34-42
CGfEntry(p) ==
  /\ inv[p].fn = "flashcards"
  /\ inv[p].pc = "entry"
  /\ IF ~apiKey
     THEN ConcFail(p, PrefixFlashcards, MsgNoKey, inv[p].replies)
     ELSE inv' = [inv EXCEPT ![p].contentChunks = ChunkText(inv[p].text, FlashcardChunkSize),
                             ![p].pc = "loop"]
  /\ ConcUnchanged

\* lines 45-62
CGfCall(p) ==
  /\ inv[p].fn = "flashcards"
  /\ inv[p].pc = "loop"
  /\ inv[p].idx < Len(inv[p].contentChunks)
  /\ inv' = [inv EXCEPT
               ![p].calls = Append(@, FlashcardCall(buildSystemPrompt(<<>>),
                                                    inv[p].contentChunks[inv[p].idx + 1])),
               ![p].order = Append(@, CallsIssued + 1),
               ![p].pc = "await"]
  /\ ConcUnchanged

\* variant of CGfResolve that appends the cards to one list shared by the
\* invocations
CGfResolveShared(p) ==
  /\ inv[p].fn = "flashcards"
  /\ inv[p].pc = "await"
  /\ \E r \in ConcFlashcardReplies(p) :
       LET rs == Append(inv[p].replies, r)
       IN  IF r.kind = "throw"
           THEN ConcFail(p, PrefixFlashcards, Classify(r.message), rs)
           ELSE IF FlashcardThrows(r.content) # {}
                THEN \E m \in FlashcardThrows(r.content) :
                       ConcFail(p, PrefixFlashcards, Classify(m), rs)
                ELSE inv' = [q \in Procs |->
                               IF q = p
                               THEN [inv[q] EXCEPT
                                       !.allFlashcards = @ \o MapCards(r.content.flashcards.cards),
                                       !.idx = @ + 1, !.replies = rs, !.pc = "loop"]
                               ELSE [inv[q] EXCEPT
                                       !.allFlashcards = @ \o MapCards(r.content.flashcards.cards)]]
  /\ ConcUnchanged

\* lines 64-96
CGfResolve(p) ==
  /\ inv[p].fn = "flashcards"
  /\ inv[p].pc = "await"
  /\ \E r \in ConcFlashcardReplies(p) :
       LET rs == Append(inv[p].replies, r)
       IN  IF r.kind = "throw"
           THEN ConcFail(p, PrefixFlashcards, Classify(r.message), rs)
           ELSE IF FlashcardThrows(r.content) # {}
                THEN \E m \in FlashcardThrows(r.content) :
                       ConcFail(p, PrefixFlashcards, Classify(m), rs)
                ELSE inv' = [inv EXCEPT
                               ![p].allFlashcards = @ \o MapCards(r.content.flashcards.cards),
                               ![p].idx = @ + 1, ![p].replies = rs, ![p].pc = "loop"]
  /\ ConcUnchanged

\* line 98
CGfReturn(p) ==
  /\ inv[p].fn = "flashcards"
  /\ inv[p].pc = "loop"
  /\ inv[p].idx = Len(inv[p].contentChunks)
  /\ inv' = [inv EXCEPT
               ![p].result = [kind |-> "flashcards", cards |-> inv[p].allFlashcards,
                              summary |-> <<>>],
               ![p].pc = "returned"]
  /\ ConcUnchanged

\* lines 158-164
CGsEntry(p) ==
  /\ inv[p].fn = "summary"
  /\ inv[p].pc = "entry"
  /\ IF ~apiKey
     THEN ConcFail(p, PrefixSummary, MsgNoKey, inv[p].replies)
     ELSE inv' = [inv EXCEPT ![p].contentChunks = ChunkText(inv[p].text, SummaryChunkSize),
                             ![p].pc = "loop"]
  /\ ConcUnchanged

\* lines 167-180: the next request of the invocation: a partial summary, the
\* final summary of the joined partial summaries, or the summary of the
\* only chunk
CGsCall(p) ==
  /\ inv[p].fn = "summary"
  /\ inv[p].pc = "loop"
  /\ LET N == Len(inv[p].contentChunks)
         request ==
           IF N > 1
           THEN IF inv[p].idx < N
                THEN SummaryCall(inv[p].contentChunks[inv[p].idx + 1], TRUE)
                ELSE SummaryCall(JoinWith([i \in 1..N |-> ToJsString(inv[p].chunkSummaries[i])],
                                          ParagraphBreak), FALSE)
           ELSE SummaryCall(inv[p].contentChunks[1], FALSE)
     IN  inv' = [inv EXCEPT ![p].calls = Append(@, request),
                            ![p].order = Append(@, CallsIssued + 1),
                            ![p].pc = "await"]
  /\ ConcUnchanged

\* lines 223-246, 172, 177, 180
CGsResolve(p) ==
  /\ inv[p].fn = "summary"
  /\ inv[p].pc = "await"
  /\ \E r \in ConcSummaryReplies(p) :
       LET rs == Append(inv[p].replies, r)
           last == ~inv[p].calls[Len(inv[p].calls)].isPartial
       IN  IF r.kind = "throw"
           THEN ConcFail(p, PrefixSummary, Classify(r.message), rs)
           ELSE IF SummaryThrows(r.content) # {}
                THEN \E m \in SummaryThrows(r.content) :
                       ConcFail(p, PrefixSummary, Classify(m), rs)
                ELSE IF last
                     THEN inv' = [inv EXCEPT
                                    ![p].result = [kind |-> "summary", cards |-> <<>>,
                                                   summary |-> r.content.summary],
                                    ![p].replies = rs, ![p].pc = "returned"]
                     ELSE inv' = [inv EXCEPT
                                    ![p].chunkSummaries = Append(@, r.content.summary),
                                    ![p].idx = @ + 1, ![p].replies = rs, ![p].pc = "loop"]
  /\ ConcUnchanged

NextConcurrent ==
  \E p \in Procs :
    \/ CGfEntry(p)
    \/ CGfCall(p)
    \/ CGfResolve(p)
    \/ CGfReturn(p)
    \/ CGsEntry(p)
    \/ CGsCall(p)
    \/ CGsResolve(p)

SpecConcurrent == InitConcurrent /\ [][NextConcurrent]_vars

\* ------------------------------------------------------------------------
\* Properties of chunkText (specification SpecChunk)
\* ------------------------------------------------------------------------
ChunkDone == cpc = "done"

\* the two models of chunkText agree: the loop run step by step returns
\* what the function ChunkText computes
ChunkModelsAgree == ChunkDone => chunks = ChunkText(text, maxChunkSize)

\* C1: concatenating the chunks returned by chunkText in order gives back
\* the input text exactly; while the loop runs, the chunks pushed so far
\* are exactly the text before startIndex
C1_Reconstruction ==
  /\ cpc = "loop" => Concat(chunks) = SubSeq(text, 1, startIndex)
  /\ ChunkDone => Concat(chunks) = text

\* a text that was cut into three chunks or more, one of them at a separator
C1_Witness ==
  /\ ChunkDone
  /\ Len(chunks) >= 3
  /\ \E i \in 1..(Len(chunks) - 1) : Len(chunks[i]) # maxChunkSize
  /\ Concat(chunks) = text

\* C2: every chunk returned by chunkText has length <= maxChunkSize
C2_SizeBound ==
  ChunkDone => \A i \in 1..Len(chunks) : Len(chunks[i]) <= maxChunkSize

\* C3 as stated: no chunk returned by chunkText is empty, for every text
C3_NoEmptyChunk_Original ==
  ChunkDone => \A i \in 1..Len(chunks) : chunks[i] # <<>>

\* C3 amended: for every non-empty text no chunk pushed by chunkText is
\* empty; the empty text yields the single empty chunk
C3_NoEmptyChunk ==
  /\ text # <<>> => \A i \in 1..Len(chunks) : chunks[i] # <<>>
  /\ ChunkDone /\ text = <<>> => chunks = << <<>> >>

\* a non-empty text cut at a separator that ends the text
C3_Witness ==
  /\ ChunkDone
  /\ text # <<>>
  /\ Len(chunks) >= 2
  /\ startIndex = Len(text)

\* every iteration of the loop moves startIndex strictly forward
C4_Progress ==
  [][cpc = "loop" /\ cpc' = "loop" => startIndex' > startIndex]_vars

\* C4: chunkText terminates: every loop iteration moves startIndex strictly
\* forward, and the function eventually returns
C4_Terminates == C4_Progress /\ <>ChunkDone

\* a run of the loop with three cuts before the last chunk
C4_Witness ==
  /\ ChunkDone
  /\ Len(chunks) >= 4
  /\ startIndex > 0

\* C5: a text no longer than maxChunkSize is returned as exactly one chunk
\* equal to the text (the empty text as a single empty chunk)
C5_SingleChunk ==
  ChunkDone /\ Len(text) <= maxChunkSize => chunks = <<text>>

\* the passthrough of a text exactly as long as maxChunkSize
C5_Witness ==
  /\ ChunkDone
  /\ Len(text) = maxChunkSize
  /\ chunks = <<text>>

\* ------------------------------------------------------------------------
\* Properties of the generation pipeline (specification Spec)
\* ------------------------------------------------------------------------
Last(q) == q[Len(q)]

\* C6: every candidate returned by generateFlashcardsFromText has exactly
\* four options, one of which equals its correctAnswer
C6_OptionsInvariant ==
  result.kind = "flashcards" =>
    \A i \in 1..Len(result.cards) :
      /\ Len(result.cards[i].options) = 4
      /\ \E j \in 1..Len(result.cards[i].options) :
           result.cards[i].options[j] = result.cards[i].correctAnswer

\* the upstream call of a flashcard chunk failed: it threw, or its content
\* was rejected
FlashcardReplyFailed(r) ==
  \/ r.kind = "throw"
  \/ r.content.kind # "object"
  \/ r.content.flashcards.t # "array"

\* C7: once the upstream call of any chunk has failed, generation ends in a
\* failure: no flashcard list is returned, nothing is persisted, and the
\* upload request is answered with status 500
C7_AllOrNothing ==
  /\ caller \in {"upload", "text", "generateFlashcards"}
  /\ \E i \in 1..Len(replies) : FlashcardReplyFailed(replies[i])
  => /\ pc = "failed"
     /\ result = NoResult
     /\ error # <<>>
     /\ flashcards = <<>>
     /\ caller \in {"upload", "text"} => response.status = 500 /\ response.flashcardsCount = 0

\* an upload of three chunks or more whose second chunk failed after the
\* first had produced candidates
C7_Witness ==
  /\ caller = "upload"
  /\ pc = "failed"
  /\ Len(contentChunks) >= 3
  /\ Len(replies) = 2
  /\ allFlashcards # <<>>
  /\ flashcards = <<>>

QuotaSignatures == {SigQuota1, SigQuota2}

\* the message the caller recognises the quota failure by
ReportsQuota(e) == Includes(e, <<"OpenAI", "API", "quota", "exceeded">>)

\* C8: an upstream error whose message contains one of the two quota
\* signatures is reported as the quota-exceeded failure, any other upstream
\* error as a generic failure carrying its message, in both functions
C8_QuotaClassification ==
  /\ replies # <<>>
  /\ Last(replies).kind = "throw"
  => LET m == Last(replies).message
         prefix == IF Last(calls).fn = "summary" THEN PrefixSummary ELSE PrefixFlashcards
     IN  /\ pc = "failed"
         /\ (\E sig \in QuotaSignatures : Includes(m, sig))
              => error = prefix \o MsgQuota /\ ReportsQuota(error)
         /\ ~(\E sig \in QuotaSignatures : Includes(m, sig))
              => error = prefix \o m /\ ~ReportsQuota(error)

\* a summarization whose second call failed with the insufficient_quota code
C8_Witness ==
  /\ caller = "generateSummary"
  /\ pc = "failed"
  /\ Len(replies) = 2
  /\ Last(replies).kind = "throw"
  /\ Includes(Last(replies).message, SigQuota2)
  /\ error = PrefixSummary \o MsgQuota

\* C9: generateSummaryFromText on a text of N > 1 chunks (budget 6000) asks
\* for N partial summaries (250 words, partial), chunk by chunk in order,
\* then once for the final summary (500 words, not partial) of the partial
\* summaries joined by a blank line; on a text of one chunk it asks once,
\* for the final summary of the text
C9_SummaryCalls ==
  caller \in {"generateSummary", "summarize"} /\ contentChunks # <<>>
  => LET N == Len(contentChunks)
         request(t, limit, partial) ==
           [fn |-> "summary", system |-> <<"SUMMARY">>, wordLimit |-> limit,
            isPartial |-> partial, input |-> t]
     IN  IF N > 1
         THEN /\ Len(calls) <= N + 1
              /\ \A i \in 1..Min(Len(calls), N) :
                   calls[i] = request(contentChunks[i], 250, TRUE)
              /\ Len(calls) = N + 1 =>
                   calls[N + 1] =
                     request(JoinWith([i \in 1..N |-> ToJsString(replies[i].content.summary)],
                                      <<"\n", "\n">>), 500, FALSE)
              /\ pc = "returned" => Len(calls) = N + 1
         ELSE /\ Len(calls) <= 1
              /\ calls # <<>> => calls[1] = request(text, 500, FALSE)
              /\ pc = "returned" => Len(calls) = 1

\* a summary returned for a text of three chunks or more
C9_Witness ==
  /\ caller = "generateSummary"
  /\ pc = "returned"
  /\ Len(contentChunks) >= 3
  /\ Len(calls) = Len(contentChunks) + 1
  /\ result.kind = "summary"

\* C10: without the API key both generation functions fail with the
\* configuration failure before they chunk the text and without any upstream
\* call
C10_NoKeyNoCall ==
  ~apiKey =>
    /\ calls = <<>>
    /\ replies = <<>>
    /\ contentChunks = <<>>
    /\ result = NoResult
    /\ pc \in {"idle", "extract", "gf_entry", "gs_entry", "failed", "responded"}
    /\ pc = "failed" /\ caller = "generateFlashcards" => error = PrefixFlashcards \o MsgNoKey
    /\ pc = "failed" /\ caller = "generateSummary" => error = PrefixSummary \o MsgNoKey
    /\ pc = "failed" /\ caller = "upload" /\ response.error \notin {MsgExtractFailed, MsgNoText}
         => response.error = PrefixFlashcards \o MsgNoKey

\* generateSummaryFromText called without the key on a text longer than one
\* chunk
C10_Witness ==
  /\ ~apiKey
  /\ caller = "generateSummary"
  /\ Len(text) > SummaryChunkSize
  /\ pc = "failed"
  /\ error = PrefixSummary \o MsgNoKey

\* the content of a reply parses as a JSON object whose required field has
\* the right shape for the function that asked: flashcards an array,
\* summary a string
WellFormedContent(r, fn) ==
  /\ r.content.kind = "object"
  /\ IF fn = "flashcards"
     THEN r.content.flashcards.t = "array"
     ELSE r.content.summary.t = "string" /\ r.content.summary.str # <<>>

\* C11: a result is produced for a chunk only if the upstream response has
\* content that parses as JSON with the required field of the right shape
\* (flashcards an array, summary a string); a response with no content,
\* unparseable content, a missing field or a field of the wrong type always
\* ends in a failure
C11_MalformedResponseFails ==
  \A i \in 1..Len(replies) :
    replies[i].kind = "content" /\ ~WellFormedContent(replies[i], calls[i].fn)
    => pc = "failed" /\ result = NoResult

\* the candidates of the replies 1..n, in the order of the replies and in
\* the order each reply lists them, as the cards the function returns
RECURSIVE CandidatesOfReplies(_)
CandidatesOfReplies(n) ==
  IF n = 0 THEN <<>>
  ELSE LET cs == replies[n].content.flashcards.cards
       IN  CandidatesOfReplies(n - 1) \o
             [i \in 1..Len(cs) |->
                [question |-> cs[i].question, correctAnswer |-> cs[i].correctAnswer,
                 options |-> cs[i].options, collectionId |-> 0]]

\* C12: on success generateFlashcardsFromText returns exactly the
\* concatenation of the candidate lists of the chunks in chunk order, one
\* reply per chunk, the order inside a reply kept, no candidate dropped or
\* duplicated
C12_ConcatenationInChunkOrder ==
  result.kind = "flashcards"
  => /\ Len(replies) = Len(contentChunks)
     /\ \A i \in 1..Len(replies) : calls[i].input = contentChunks[i]
     /\ result.cards = CandidatesOfReplies(Len(replies))

\* flashcards returned for a text of three chunks or more whose first two
\* chunks produced different, non-empty candidate lists
C12_Witness ==
  /\ caller = "generateFlashcards"
  /\ pc = "returned"
  /\ Len(contentChunks) >= 3
  /\ replies[1].content.flashcards.cards = <<CardValid>>
  /\ replies[2].content.flashcards.cards = <<CardNoAnswer, CardTwoOptions>>
  /\ Len(result.cards) >= 3

\* the callers that run generateFlashcardsFromText
FlashcardCallers == {"upload", "text", "generateFlashcards"}

\* C13 as stated: every text of 9000 characters is cut into exactly 3 chunks
\* of at most 4000 characters, so flashcard generation over it issues
\* exactly 3 upstream calls
C13_ThreeChunks_Original ==
  /\ Len(text) = 9000
  /\ caller \in FlashcardCallers
  /\ contentChunks # <<>>
  => /\ Len(contentChunks) = 3
     /\ Len(calls) <= 3
     /\ result.kind = "flashcards" => Len(calls) = 3

\* C13: every text of 9000 characters is cut (budget 4000) into at least 3
\* chunks, into exactly 3 when it holds no paragraph break and no sentence
\* end, and a flashcard generation that returns has issued exactly one
\* upstream call per chunk
C13_ThreeChunks ==
  /\ Len(text) = 9000
  /\ caller \in FlashcardCallers
  /\ contentChunks # <<>>
  => /\ Len(contentChunks) >= 3
     /\ \/ Len(contentChunks) = 3
        \/ Includes(text, ParagraphBreak)
        \/ Includes(text, SentenceEnd)
     /\ Len(calls) <= Len(contentChunks)
     /\ result.kind = "flashcards" => Len(calls) = Len(contentChunks)

\* flashcards returned for a text of 9000 characters without a separator,
\* after 3 calls
C13_Witness ==
  /\ caller = "generateFlashcards"
  /\ pc = "returned"
  /\ result.kind = "flashcards"
  /\ Len(text) = 9000
  /\ Len(contentChunks) = 3
  /\ Len(calls) = 3
  /\ ~Includes(text, ParagraphBreak)
  /\ ~Includes(text, SentenceEnd)

\* the callers that run generateSummaryFromText
SummaryCallers == {"summarize", "generateSummary"}

\* the upstream call of a summary failed: it threw, or its content was
\* empty, not a JSON object, or without a summary
SummaryReplyFailed(r) ==
  \/ r.kind = "throw"
  \/ r.content.kind # "object"
  \/ r.content.summary.t = "undefined"
  \/ r.content.summary.t = "string" /\ r.content.summary.str = <<>>

\* C14: once an upstream call of generateSummaryFromText has failed, partial
\* or final, no summary is returned and the failure is reported; the failed
\* call is the last one made, so after a failed partial call neither the
\* remaining partial calls nor the final call are made
C14_SummaryAllOrNothing ==
  /\ caller \in SummaryCallers
  /\ \E i \in 1..Len(replies) : SummaryReplyFailed(replies[i])
  => /\ pc = "failed"
     /\ result = NoResult
     /\ error # <<>>
     /\ \A i \in 1..Len(replies) : SummaryReplyFailed(replies[i]) => i = Len(replies)
     /\ Len(calls) = Len(replies)
     /\ caller = "summarize" => response.status = 500

\* a summarization of three chunks or more whose second partial call failed
\* after the first had produced its summary
C14_Witness ==
  /\ caller = "generateSummary"
  /\ pc = "failed"
  /\ Len(contentChunks) >= 3
  /\ Len(replies) = 2
  /\ Len(calls) = 2
  /\ Len(chunkSummaries) = 1
  /\ SummaryReplyFailed(replies[2])
  /\ result = NoResult

\* C15: the text handed to every upstream summarization call, the final
\* call over the joined partial summaries included, has at most 6000
\* characters
C15_SummaryInputBudget ==
  \A i \in 1..Len(calls) :
    calls[i].fn = "summary" => Len(calls[i].input) <= SummaryChunkSize

\* the part of that statement about the final call alone: the joined partial
\* summaries have at most 6000 characters
FinalInputBudget ==
  \A i \in 1..Len(calls) :
    calls[i].fn = "summary" /\ ~calls[i].isPartial => Len(calls[i].input) <= SummaryChunkSize

\* C16: every flashcard persisted by the upload route or the text route
\* carries the id of the collection the request created, never the
\* placeholder 0 the assembler returns its cards with, and cards are
\* persisted only after generateFlashcardsFromText has returned
C16_PersistedCollectionId ==
  /\ \A i \in 1..Len(result.cards) : result.cards[i].collectionId = 0
  /\ flashcards # <<>>
     => /\ caller \in {"upload", "text"}
        /\ pc = "responded"
        /\ result.kind = "flashcards"
        /\ collections # <<>>
        /\ Len(flashcards) = Len(result.cards)
        /\ \A i \in 1..Len(flashcards) :
             /\ flashcards[i].collectionId = collections[Len(collections)].id
             /\ flashcards[i].collectionId # 0
             /\ flashcards[i] =
                  [result.cards[i] EXCEPT !.collectionId = collections[Len(collections)].id]

\* the text route has persisted the cards of three chunks or more
C16_Witness ==
  /\ caller = "text"
  /\ pc = "responded"
  /\ response.status = 201
  /\ Len(contentChunks) >= 3
  /\ Len(flashcards) >= 3

\* C17: no upstream call is issued for an empty or whitespace-only text on
\* any route that runs the pipeline (upload, text submission, summarize):
\* such a text is rejected before chunking and generation start
C17_NoCallForBlankText ==
  caller \in Routes /\ IsBlank(text) => calls = <<>>

\* the flag f of the options record o is set: true, or left out
IsSet(o, f) == f \notin DOMAIN o \/ o[f]

\* the prompt for the three flag values d (definitions), c (concepts) and
\* m (multiple choice)
PromptOf(d, c, m) ==
  LET clause(cond, name) == IF cond THEN <<name>> ELSE <<>>
  IN  <<"BASE: exactly 4 answer options, correct answer in options">>
      \o clause(d, "DEFINITIONS") \o clause(c, "CONCEPTS") \o clause(~m, "DIRECT ANSWER")

\* C18: the system prompt of every flashcard call is the base instruction
\* (exactly 4 options, the correct answer among them), then the definitions
\* clause iff generateDefinitions is set, then the concepts clause iff
\* generateConcepts is set, then the direct-answer clause iff
\* includeMultipleChoice is false; every chunk of an invocation gets the
\* same prompt
C18_PromptOfFlags ==
  \A i \in 1..Len(calls) :
    calls[i].fn = "flashcards"
    => /\ calls[i].system = PromptOf(IsSet(options, "generateDefinitions"),
                                     IsSet(options, "generateConcepts"),
                                     IsSet(options, "includeMultipleChoice"))
       /\ calls[i].system = calls[1].system

\* three calls or more of an invocation with the definitions flag set and
\* the other two flags false
C18_Witness ==
  /\ caller = "generateFlashcards"
  /\ options = [generateDefinitions |-> TRUE, generateConcepts |-> FALSE,
                includeMultipleChoice |-> FALSE]
  /\ Len(calls) >= 3
  /\ calls[3].system = <<"BASE: exactly 4 answer options, correct answer in options",
                         "DEFINITIONS", "DIRECT ANSWER">>

\* the prompt treats the flag f as true
TreatedAsTrue(f, prompt) ==
  CASE f = "generateDefinitions" -> Includes(prompt, <<"DEFINITIONS">>)
    [] f = "generateConcepts" -> Includes(prompt, <<"CONCEPTS">>)
    [] f = "includeMultipleChoice" -> ~Includes(prompt, <<"DIRECT ANSWER">>)

\* the flag f was not supplied: the upload request left its form field out,
\* or the options record passed by another caller has no such field
NotSupplied(f) ==
  IF caller = "upload" THEN form # <<>> /\ form[f] = "absent"
  ELSE f \notin DOMAIN options

\* C19: a generation flag that is not supplied is treated as true, when the
\* options record passed to the prompt builder omits it and when an upload
\* request omits its form field
C19_OmittedFlagIsTrue ==
  \A i \in 1..Len(calls) :
    calls[i].fn = "flashcards"
    => \A f \in Flags : NotSupplied(f) => TreatedAsTrue(f, calls[i].system)

\* the part of that statement about the options record alone
OmittedOptionIsTrue ==
  \A i \in 1..Len(calls) :
    calls[i].fn = "flashcards"
    => \A f \in Flags : f \notin DOMAIN options => TreatedAsTrue(f, calls[i].system)

\* the message of the error a failed generation started from: the error
\* caught by the inner catch block, or the configuration error thrown before
\* any request
UnderlyingMessage == IF caught # <<>> THEN caught ELSE MsgNoKey

\* C20 as stated: every failure surfaced by generateFlashcardsFromText or
\* generateSummaryFromText carries the original message of the underlying
\* error behind a fixed prefix, whatever its kind: configuration, empty
\* response, malformed response, quota exceeded, generic upstream
C20_OriginalMessageKept_Original ==
  pc = "failed" /\ error # <<>>
  => /\ replies # <<>> /\ Last(replies).kind = "throw" => caught = Last(replies).message
     /\ \E prefix \in {PrefixFlashcards, PrefixSummary} : error = prefix \o UnderlyingMessage

\* C20: every failure surfaced by generateFlashcardsFromText or
\* generateSummaryFromText carries, behind the fixed prefix of the function,
\* the original message of the underlying error when its kind is
\* configuration, empty response, malformed response or generic upstream,
\* and the fixed quota message when the underlying message holds a quota
\* signature
C20_MessageKeptExceptQuota ==
  pc = "failed" /\ error # <<>>
  => /\ replies # <<>> /\ Last(replies).kind = "throw" => caught = Last(replies).message
     /\ \E prefix \in {PrefixFlashcards, PrefixSummary} :
          error = prefix \o (IF \E sig \in QuotaSignatures : Includes(UnderlyingMessage, sig)
                             THEN MsgQuota
                             ELSE UnderlyingMessage)

\* a summarization of three chunks or more whose second partial call got a
\* response without content
C20_Witness ==
  /\ caller = "generateSummary"
  /\ pc = "failed"
  /\ Len(contentChunks) >= 3
  /\ Len(replies) = 2
  /\ Last(replies) = Answers(NoContent)
  /\ error = PrefixSummary \o MsgNoResponse

\* the offsets after startIndex and not after startIndex + maxChunkSize at
\* which the separator s starts
SeparatorsInReach(s) ==
  {i \in (startIndex + 1)..(startIndex + maxChunkSize) :
     i + 2 <= Len(text) /\ text[i + 1] = s[1] /\ text[i + 2] = s[2]}

\* the offset at which the chunk starting at startIndex ends: behind the
\* last paragraph break in reach, else behind the last sentence end in
\* reach, else maxChunkSize characters on
ExpectedCut ==
  IF SeparatorsInReach(ParagraphBreak) # {}
  THEN SetMax(SeparatorsInReach(ParagraphBreak)) + 2
  ELSE IF SeparatorsInReach(SentenceEnd) # {}
       THEN SetMax(SeparatorsInReach(SentenceEnd)) + 2
       ELSE startIndex + maxChunkSize

\* C24: when more than maxChunkSize characters remain, chunkText cuts behind
\* the paragraph break nearest to startIndex + maxChunkSize searching
\* backward, if one starts after startIndex, even when a sentence end lies
\* closer to the limit; otherwise behind the nearest sentence end after
\* startIndex; otherwise exactly maxChunkSize characters after startIndex;
\* the separator is kept whole at the end of the chunk it closes
C24_CutPreference ==
  [][cpc = "loop" /\ startIndex < Len(text) /\ startIndex + maxChunkSize < Len(text)
       => /\ chunks' = Append(chunks, SubSeq(text, startIndex + 1, ExpectedCut))
          /\ startIndex' = ExpectedCut]_vars

\* the first chunk was cut behind a paragraph break although a sentence end
\* lay closer to the limit
C24_Witness ==
  /\ cpc = "done"
  /\ Len(chunks) >= 2
  /\ Len(chunks[1]) >= 3
  /\ SubSeq(chunks[1], Len(chunks[1]) - 1, Len(chunks[1])) = ParagraphBreak
  /\ \E i \in (Len(chunks[1]) - 1)..maxChunkSize :
       i + 2 <= Len(text) /\ text[i + 1] = "." /\ text[i + 2] = " "

\* C26: when the text is longer than maxChunkSize, every chunk chunkText
\* returns has at least 1 and at most maxChunkSize + 2 characters: a cut at
\* a separator may take in the two characters of a separator that starts at
\* the size limit or just before it, and never more
C26_ChunkLengthRange ==
  Len(text) > maxChunkSize
  => \A i \in 1..Len(chunks) :
       /\ Len(chunks[i]) >= 1
       /\ Len(chunks[i]) <= maxChunkSize + 2
       /\ Len(chunks[i]) > maxChunkSize
            => \E s \in {ParagraphBreak, SentenceEnd} :
                 SubSeq(chunks[i], Len(chunks[i]) - 1, Len(chunks[i])) = s

\* a returned chunk of maxChunkSize + 2 characters that is not the first one
C26_Witness ==
  /\ cpc = "done"
  /\ maxChunkSize >= 2
  /\ Len(chunks) >= 2
  /\ Len(chunks[2]) = maxChunkSize + 2

\* ------------------------------------------------------------------------
\* Properties of the concurrent invocations (specification SpecConcurrent)
\* ------------------------------------------------------------------------
\* the message an invocation run alone would fail with on the reply r, or
\* <<>> when it accepts r
FailureOf(fn, r) ==
  LET ms == IF r.kind = "throw" THEN {r.message}
            ELSE IF fn = "flashcards" THEN FlashcardThrows(r.content)
            ELSE SummaryThrows(r.content)
  IN  IF ms = {} THEN <<>>
      ELSE (IF fn = "flashcards" THEN PrefixFlashcards ELSE PrefixSummary)
           \o Classify(CHOOSE m \in ms : TRUE)

RECURSIVE FlashcardsAlone(_, _, _)
\* the outcome of generateFlashcardsFromText run alone on n chunks with the
\* replies rs, from reply i on: the cards, or the failure and the number of
\* replies it took
FlashcardsAlone(n, rs, i) ==
  IF i > n THEN [kind |-> "flashcards", cards |-> <<>>, error |-> <<>>, used |-> n]
  ELSE IF FailureOf("flashcards", rs[i]) # <<>>
       THEN [kind |-> "failed", cards |-> <<>>, error |-> FailureOf("flashcards", rs[i]),
             used |-> i]
       ELSE LET rest == FlashcardsAlone(n, rs, i + 1)
            IN  IF rest.kind = "failed" THEN rest
                ELSE [rest EXCEPT !.cards = MapCards(rs[i].content.flashcards.cards) \o @]

\* the same for generateSummaryFromText: n partial replies and the final one
\* when n > 1, the single reply otherwise
SummaryAlone(n, rs) ==
  LET total == IF n > 1 THEN n + 1 ELSE 1
      failing == {i \in 1..Min(total, Len(rs)) : FailureOf("summary", rs[i]) # <<>>}
  IN  IF failing # {}
      THEN LET i == CHOOSE j \in failing : \A k \in failing : j <= k
           IN  [kind |-> "failed", summary |-> <<>>, error |-> FailureOf("summary", rs[i]),
                used |-> i]
      ELSE [kind |-> "summary", summary |-> rs[total].content.summary.str, error |-> <<>>,
            used |-> total]

\* the invocation p has ended
Ended(p) == inv[p].pc \in {"returned", "failed"}

\* C21: under every interleaving of the upstream calls of two invocations
\* for different documents, the outcome of each invocation (its ordered card
\* list or its summary, or its failure) is the outcome it has when run alone
\* with the same upstream replies, and no candidate produced for one
\* document is in the result of the other
C21_Independent ==
  \A p \in Procs :
    /\ Ended(p) /\ apiKey =>
         IF inv[p].fn = "flashcards"
         THEN LET alone == FlashcardsAlone(Len(inv[p].contentChunks), inv[p].replies, 1)
              IN  /\ inv[p].result.kind = IF alone.kind = "failed" THEN "none" ELSE "flashcards"
                  /\ inv[p].result.cards = alone.cards
                  /\ inv[p].error = alone.error
                  /\ Len(inv[p].replies) = alone.used
                  /\ Len(inv[p].calls) = alone.used
         ELSE LET alone == SummaryAlone(Len(inv[p].contentChunks), inv[p].replies)
              IN  /\ inv[p].result.kind = IF alone.kind = "failed" THEN "none" ELSE "summary"
                  /\ inv[p].result.summary = IF alone.kind = "failed" THEN <<>>
                                             ELSE JString(alone.summary)
                  /\ inv[p].error = alone.error
                  /\ Len(inv[p].replies) = alone.used
                  /\ Len(inv[p].calls) = alone.used
    /\ \A i \in 1..Len(inv[p].allFlashcards) : inv[p].allFlashcards[i].question[2] = p
    /\ \A i \in 1..Len(inv[p].result.cards) : inv[p].result.cards[i].question[2] = p
    /\ \A i \in 1..Min(Len(inv[p].calls), Len(inv[p].contentChunks)) :
         inv[p].calls[i].input = inv[p].contentChunks[i]

\* two flashcard generations of two chunks each whose upstream calls
\* alternated, both returned with cards
C21_Witness ==
  /\ inv # <<>>
  /\ \A p \in Procs : inv[p].fn = "flashcards" /\ inv[p].pc = "returned"
  /\ inv[1].order = <<1, 3>>
  /\ inv[2].order = <<2, 4>>
  /\ Len(inv[1].result.cards) >= 2
  /\ Len(inv[2].result.cards) >= 2

\* ------------------------------------------------------------------------
\* Properties of the routes and of the pages
\* ------------------------------------------------------------------------
\* C22: when the upstream signals quota exhaustion while an upload is
\* processed, the upload page shows the quota message (update the API key)
\* and not the generic failure message
C22_QuotaToast ==
  /\ caller = "upload"
  /\ toast # NoToast
  /\ replies # <<>>
  /\ Last(replies).kind = "throw"
  /\ \E sig \in QuotaSignatures : Includes(Last(replies).message, sig)
  => toast = ToastApiLimit

\* the part of that statement about the route: its error response carries
\* the quota message of the generation client
QuotaInErrorResponse ==
  /\ caller = "upload"
  /\ response.status # 0
  /\ replies # <<>>
  /\ Last(replies).kind = "throw"
  /\ \E sig \in QuotaSignatures : Includes(Last(replies).message, sig)
  => ReportsQuota(response.error)

\* C23: a text submission of more than 5000 whitespace-separated words is
\* rejected with an error response, and no collection is created, no
\* upstream call is made and storage is left unchanged
C23_WordLimit ==
  /\ [][pc = "idle" /\ caller' = "text" /\ WordCount(text') > MaxWords
          => /\ pc' = "responded"
             /\ response'.status = 400
             /\ calls' = <<>>
             /\ UNCHANGED storageVars]_vars
  /\ [](caller = "text" /\ response.status = 400
          => /\ pc = "responded"
             /\ calls = <<>>
             /\ contentChunks = <<>>
             /\ collections = <<>>
             /\ documents = <<>>
             /\ flashcards = <<>>
             /\ activities = <<>>)

\* a titled text of 5001 words has been rejected
C23_Witness ==
  /\ caller = "text"
  /\ pc = "responded"
  /\ response.status = 400
  /\ response.message = <<"Text", "exceeds", "maximum", "allowed", "length">>
  /\ text = ManyWordsText
  /\ WordCount(text) = MaxWords + 1

\* C25: in one invocation of generateFlashcardsFromText the upstream calls
\* are a prefix of the chunk sequence: call i is for chunk i, one call per
\* chunk and no retry, a call is issued only after every earlier call has
\* resolved successfully, and none after a failed one; calls are only ever
\* added at the end of the trace, one at a time
C25_CallsPrefixOfChunks ==
  /\ [](caller \in FlashcardCallers
         => /\ Len(calls) <= Len(contentChunks)
            /\ \A i \in 1..Len(calls) :
                 calls[i].fn = "flashcards" /\ calls[i].input = contentChunks[i]
            /\ Len(replies) <= Len(calls)
            /\ Len(calls) <= Len(replies) + 1
            /\ \A i \in 1..Len(replies) :
                 FlashcardReplyFailed(replies[i]) => i = Len(calls) /\ pc = "failed"
            /\ pc = "gf_await" <=> Len(calls) = Len(replies) + 1)
  /\ [][calls' # calls /\ caller \in FlashcardCallers
          => /\ Len(calls') = Len(calls) + 1
             /\ Len(replies) = Len(calls)
             /\ SubSeq(calls', 1, Len(calls)) = calls]_vars

\* a text submission of three chunks or more whose second call failed: two
\* calls were made
C25_Witness ==
  /\ caller = "text"
  /\ pc = "failed"
  /\ Len(contentChunks) >= 3
  /\ Len(calls) = 2
  /\ Len(replies) = 2
  /\ FlashcardReplyFailed(replies[2])
  /\ calls[2].input = contentChunks[2]

\* C27: when an upload or a text submission ends in an extraction or
\* generation failure, storage holds no collection, document, flashcard or
\* activity record created by the request
C27_AtomicStorage ==
  caller \in {"upload", "text"} /\ pc = "failed"
  => /\ collections = <<>>
     /\ documents = <<>>
     /\ flashcards = <<>>
     /\ activities = <<>>

\* the part of that statement about the flashcards alone
NoFlashcardsAfterFailure ==
  caller \in {"upload", "text"} /\ pc = "failed" => flashcards = <<>>

\* =========================================================================
\* A generation request and DELETE /api/collections/:id on the same
\* collection, one storage statement at a time (specification SpecStorage)
\* =========================================================================
\* routes.ts line 112: the id of the DELETE request, that of the collection
\* the generation request creates
DeletedId == 1

\* schema.ts lines 165, 182: collection_id references collections.id
CollectionExists(id) == \E i \in 1..Len(collections) : collections[i].id = id

\* schema.ts lines 165, 182: rows that still reference the collection
Referenced(id) ==
  \/ \E i \in 1..Len(flashcards) : flashcards[i].collectionId = id
  \/ \E i \in 1..Len(documents) : documents[i].collectionId = id

MsgForeignKey == <<"violates", "foreign", "key", "constraint">>

InitStorage ==
  /\ text = <<>>
  /\ maxChunkSize = 1
  /\ startIndex = 0
  /\ chunks = <<>>
  /\ cpc = "off"
  /\ apiKey = TRUE
  /\ PipeIdle
  /\ toast = NoToast
  /\ inv = <<>>
  /\ deletePc = "idle"
  /\ deleteStatus = 0
  /\ QuizIdle

StUnchanged ==
  UNCHANGED <<text, chunkVars, apiKey, form, options, contentChunks, idx, allFlashcards,
              chunkSummaries, calls, replies, caught, error, toast, inv, quizVars>>

\* routes.ts lines 236-242, 514-519: a storage call threw
StFail(m) ==
  /\ pc' = "failed"
  /\ response' = [status |-> 500, message |-> RouteFailure(caller), error |-> m,
                  flashcardsCount |-> 0]

\* routes.ts lines 179-184, 469-474: createCollection
StCreateCollection ==
  /\ pc = "idle"
  /\ \E r \in {"upload", "text"} :
       /\ caller' = r
       /\ pc' = IF r = "upload" THEN "st_document" ELSE "st_generate"
  /\ collections' = Append(collections, [id |-> DeletedId])
  /\ UNCHANGED <<documents, flashcards, activities, result, response, deleteVars>>
  /\ StUnchanged

\* routes.ts lines 194-200 (upload), 492-498 (text): createDocument
StCreateDocument ==
  /\ pc \in {"st_document", "st_text_document"}
  /\ IF CollectionExists(DeletedId)
     THEN /\ documents' = Append(documents, [id |-> Len(documents) + 1,
                                             collectionId |-> DeletedId])
          /\ pc' = IF pc = "st_document" THEN "st_activity" ELSE "st_generation_activity"
          /\ UNCHANGED response
     ELSE /\ StFail(MsgForeignKey)
          /\ UNCHANGED documents
  /\ UNCHANGED <<caller, collections, flashcards, activities, result, deleteVars>>
  /\ StUnchanged

\* routes.ts lines 203-209: createActivity of the upload
StCreateUploadActivity ==
  /\ pc = "st_activity"
  /\ activities' = Append(activities, [type |-> "upload", entityId |-> Len(documents)])
  /\ pc' = "st_generate"
  /\ UNCHANGED <<caller, collections, documents, flashcards, result, response, deleteVars>>
  /\ StUnchanged

\* routes.ts lines 212-217, 477-486: the generation resolves with a list
\* of flashcards stamped with the collection id, or rejects
StGenerate ==
  /\ pc = "st_generate"
  /\ \/ \E cs \in CardLists :
          /\ result' = [kind |-> "flashcards",
                        cards |-> [i \in 1..Len(MapCards(cs)) |->
                                     [MapCards(cs)[i] EXCEPT !.collectionId = DeletedId]],
                        summary |-> <<>>]
          /\ pc' = "st_flashcards"
          /\ UNCHANGED response
     \/ /\ StFail(PrefixFlashcards \o MsgQuota)
        /\ UNCHANGED result
  /\ UNCHANGED <<caller, storageVars, deleteVars>>
  /\ StUnchanged

\* variant of StCreateFlashcards for a table without the reference
StCreateFlashcardsUnreferenced ==
  /\ pc = "st_flashcards"
  /\ flashcards' = flashcards \o result.cards
  /\ pc' = IF caller = "upload" THEN "st_generation_activity" ELSE "st_text_document"
  /\ UNCHANGED <<caller, collections, documents, activities, result, response, deleteVars>>
  /\ StUnchanged

\* routes.ts lines 220, 489; storage.ts lines 251-258: createFlashcards
StCreateFlashcards ==
  /\ pc = "st_flashcards"
  /\ IF result.cards = <<>> \/ CollectionExists(DeletedId)
     THEN /\ flashcards' = flashcards \o result.cards
          /\ pc' = IF caller = "upload" THEN "st_generation_activity" ELSE "st_text_document"
          /\ UNCHANGED response
     ELSE /\ StFail(MsgForeignKey)
          /\ UNCHANGED flashcards
  /\ UNCHANGED <<caller, collections, documents, activities, result, deleteVars>>
  /\ StUnchanged

\* routes.ts lines 223-235, 501-512: createActivity of the generation and
\* the 201 response
StCreateGenerationActivity ==
  /\ pc = "st_generation_activity"
  /\ activities' = Append(activities, [type |-> "generation", entityId |-> DeletedId])
  /\ response' = [status |-> 201, message |-> <<>>, error |-> <<>>,
                  flashcardsCount |-> Len(result.cards)]
  /\ pc' = "responded"
  /\ UNCHANGED <<caller, collections, documents, flashcards, result, deleteVars>>
  /\ StUnchanged

DelUnchanged ==
  UNCHANGED <<text, chunkVars, apiKey, form, caller, options, genVars, pc, response,
              toast, inv, quizVars>>

\* routes.ts lines 110-114: DELETE /api/collections/:id enters deleteCollection
DelStart ==
  /\ deletePc = "idle"
  /\ deletePc' = "flashcards"
  /\ UNCHANGED <<storageVars, deleteStatus>>
  /\ DelUnchanged

\* storage.ts lines 192-194: delete the flashcards of the collection
DelFlashcards ==
  /\ deletePc = "flashcards"
  /\ flashcards' = SelectSeq(flashcards, LAMBDA f : f.collectionId # DeletedId)
  /\ deletePc' = "documents"
  /\ UNCHANGED <<collections, documents, activities, deleteStatus>>
  /\ DelUnchanged

\* storage.ts lines 197-204: delete the documents (and the quiz sessions)
\* of the collection
DelDocuments ==
  /\ deletePc = "documents"
  /\ documents' = SelectSeq(documents, LAMBDA d : d.collectionId # DeletedId)
  /\ deletePc' = "activities"
  /\ UNCHANGED <<collections, flashcards, activities, deleteStatus>>
  /\ DelUnchanged

\* storage.ts lines 207-212: delete the activities of the collection
DelActivities ==
  /\ deletePc = "activities"
  /\ activities' = SelectSeq(activities,
                             LAMBDA a : ~(a.type = "generation" /\ a.entityId = DeletedId))
  /\ deletePc' = "collection"
  /\ UNCHANGED <<collections, documents, flashcards, deleteStatus>>
  /\ DelUnchanged

\* storage.ts lines 215-224, routes.ts lines 116-125: delete the collection
\* itself; 500 when rows still reference it, 404 when it was not there, else 204
DelCollection ==
  /\ deletePc = "collection"
  /\ IF Referenced(DeletedId)
     THEN /\ deleteStatus' = 500
          /\ UNCHANGED collections
     ELSE /\ deleteStatus' = IF CollectionExists(DeletedId) THEN 204 ELSE 404
          /\ collections' = SelectSeq(collections, LAMBDA c : c.id # DeletedId)
  /\ deletePc' = "done"
  /\ UNCHANGED <<documents, flashcards, activities>>
  /\ DelUnchanged

NextStorage ==
  \/ StCreateCollection
  \/ StCreateDocument
  \/ StCreateUploadActivity
  \/ StGenerate
  \/ StCreateFlashcards
  \/ StCreateGenerationActivity
  \/ DelStart
  \/ DelFlashcards
  \/ DelDocuments
  \/ DelActivities
  \/ DelCollection

SpecStorage == InitStorage /\ [][NextStorage]_vars

\* =========================================================================
\* Properties of the storage under a concurrent DELETE
\* =========================================================================
\* C28: every persisted flashcard carries the id of a collection that
\* exists, also when DELETE /api/collections/:id runs between the storage
\* calls of the request that created the collection
C28_FlashcardsReferToCollection ==
  \A i \in 1..Len(flashcards) : CollectionExists(flashcards[i].collectionId)

\* the DELETE removed the collection while the request awaited its
\* generation, and the insert of the flashcards was rejected
C28_Witness ==
  /\ deleteStatus = 204
  /\ pc = "failed"
  /\ result.kind = "flashcards"
  /\ result.cards # <<>>
  /\ response.status = 500
  /\ response.error = MsgForeignKey
  /\ flashcards = <<>>
  /\ collections = <<>>

\* the DELETE started before the flashcards were saved and was rejected at
\* its last statement
C28_DeleteRejected ==
  /\ deleteStatus = 500
  /\ flashcards # <<>>
  /\ CollectionExists(DeletedId)

\* =========================================================================
\* The quiz page, client/src/pages/Quiz.tsx (specification SpecQuiz)
\* =========================================================================
MaxQuizCards == 2

MaxScore == 4

QuizOptions == <<"A", "B">>

\* the flashcards of the collection as the page receives them (line 30)
QuizCards == { [correctAnswer |-> a, options |-> QuizOptions] : a \in {"A", "B"} }

QuizDecks == UNION { [1..n -> QuizCards] : n \in 0..MaxQuizCards }

\* line 66: flashcards?.[currentQuestionIndex]
currentQuestion == flashcardsData[currentQuestionIndex + 1]

\* answeredQuestions.includes(i), line 88
AnsweredIncludes(i) == \E k \in 1..Len(answeredQuestions) : answeredQuestions[k] = i

\* lines 18-23: the state of the page when it is mounted
InitQuiz ==
  /\ text = <<>>
  /\ maxChunkSize = 1
  /\ startIndex = 0
  /\ chunks = <<>>
  /\ cpc = "off"
  /\ apiKey = TRUE
  /\ PipeIdle
  /\ toast = NoToast
  /\ inv = <<>>
  /\ deletePc = "off"
  /\ deleteStatus = 0
  /\ flashcardsData \in QuizDecks
  /\ currentQuestionIndex = 0
  /\ selectedOption = "null"
  /\ isAnswerRevealed = FALSE
  /\ score = 0
  /\ quizCompleted = FALSE
  /\ answeredQuestions = <<>>

QuizUnchanged == UNCHANGED <<text, chunkVars, pipeVars, toast, inv, deleteVars>>

\* lines 75-91; the option buttons are rendered while the quiz runs and are
\* disabled once the answer is revealed (lines 207, 255-256)
handleOptionSelect ==
  /\ flashcardsData # <<>>
  /\ ~quizCompleted
  /\ ~isAnswerRevealed
  /\ score < MaxScore
  /\ \E k \in 1..Len(currentQuestion.options) :
       LET option == currentQuestion.options[k]
       IN  /\ selectedOption' = option
           /\ score' = IF option = currentQuestion.correctAnswer THEN score + 1 ELSE score
  /\ isAnswerRevealed' = TRUE
  /\ answeredQuestions' = IF AnsweredIncludes(currentQuestionIndex)
                          THEN answeredQuestions
                          ELSE Append(answeredQuestions, currentQuestionIndex)
  /\ UNCHANGED <<flashcardsData, currentQuestionIndex, quizCompleted>>
  /\ QuizUnchanged

\* lines 94-106; the button is disabled until the answer is revealed (line 286)
goToNextQuestion ==
  /\ flashcardsData # <<>>
  /\ ~quizCompleted
  /\ isAnswerRevealed
  /\ IF currentQuestionIndex < Len(flashcardsData) - 1
     THEN /\ currentQuestionIndex' = currentQuestionIndex + 1
          /\ selectedOption' = "null"
          /\ isAnswerRevealed' = FALSE
          /\ UNCHANGED quizCompleted
     ELSE /\ quizCompleted' = TRUE
          /\ UNCHANGED <<currentQuestionIndex, selectedOption, isAnswerRevealed>>
  /\ UNCHANGED <<flashcardsData, score, answeredQuestions>>
  /\ QuizUnchanged

\* lines 109-115; the button is disabled on the first question (line 277)
goToPreviousQuestion ==
  /\ flashcardsData # <<>>
  /\ ~quizCompleted
  /\ currentQuestionIndex > 0
  /\ currentQuestionIndex' = currentQuestionIndex - 1
  /\ selectedOption' = "null"
  /\ isAnswerRevealed' = FALSE
  /\ UNCHANGED <<flashcardsData, score, quizCompleted, answeredQuestions>>
  /\ QuizUnchanged

\* lines 190-197: the retry button of the completed quiz
Retry ==
  /\ flashcardsData # <<>>
  /\ quizCompleted
  /\ currentQuestionIndex' = 0
  /\ selectedOption' = "null"
  /\ isAnswerRevealed' = FALSE
  /\ score' = 0
  /\ quizCompleted' = FALSE
  /\ answeredQuestions' = <<>>
  /\ UNCHANGED flashcardsData
  /\ QuizUnchanged

NextQuiz ==
  \/ handleOptionSelect
  \/ goToNextQuestion
  \/ goToPreviousQuestion
  \/ Retry

SpecQuiz == InitQuiz /\ [][NextQuiz]_vars

\* =========================================================================
\* Properties of the quiz
\* =========================================================================
\* C29: in the quiz the score never exceeds the number of answered
\* questions, which never exceeds the number of flashcards, also after the
\* user went back to a question already answered
C29_ScoreBound ==
  /\ score <= Len(answeredQuestions)
  /\ Len(answeredQuestions) <= Len(flashcardsData)

\* the half of C29 that holds: a question is recorded as answered once
C29_AnsweredBound ==
  /\ Len(answeredQuestions) <= Len(flashcardsData)
  /\ \A j, k \in 1..Len(answeredQuestions) :
       answeredQuestions[j] = answeredQuestions[k] => j = k

\* =========================================================================
\* Properties of generation without candidates
\* =========================================================================
\* an upstream response whose flashcards field is the empty array
EmptyReply == Answers(JsonObject(JArray(<<>>), JUndefined))

\* every chunk was answered, each time with an empty flashcards array
AllRepliesEmpty ==
  /\ replies # <<>>
  /\ Len(replies) = Len(contentChunks)
  /\ \A i \in 1..Len(replies) : replies[i] = EmptyReply

\* C30: no minimum number of candidates is enforced: when every chunk's
\* response carries an empty flashcards array, generateFlashcardsFromText
\* succeeds with the empty list, and the route answers 201 with
\* flashcardsCount 0 and leaves a collection without flashcards
C30_NoMinimumOfCandidates ==
  /\ caller \in FlashcardCallers
  /\ AllRepliesEmpty
  /\ pc # "gf_loop"
  => /\ pc \in {"returned", "responded"}
     /\ result = [kind |-> "flashcards", cards |-> <<>>, summary |-> <<>>]
     /\ error = <<>>
     /\ pc = "responded"
        => /\ response.status = 201
           /\ response.flashcardsCount = 0
           /\ collections # <<>>
           /\ flashcards = <<>>

\* an upload of a text of several chunks, each answered with an empty
\* array, answered 201 with flashcardsCount 0
C30_Witness ==
  /\ caller = "upload"
  /\ pc = "responded"
  /\ AllRepliesEmpty
  /\ Len(replies) >= 2
  /\ response.status = 201
  /\ response.flashcardsCount = 0
  /\ Len(collections) = 1
  /\ flashcards = <<>>

====
